---- MODULE Spec2Model ----
(***************************************************************************)
(* State-machine model of the CrystFEL prediction-refinement and scaling   *)
(* engine: peak-to-prediction pairing (pair_peaks), the profile-radius     *)
(* estimator (refine_radius), the prediction refinement driver             *)
(* (refine_prediction, iterate), and the scaling engine (scale_all,        *)
(* linear_scale, scale_all_to_reference).                                  *)
(*                                                                         *)
(* Numbers are integers.  Excitation errors are in units of 0.001e9 m^-1   *)
(* (the offset of the outlier-transition bound), distances and the         *)
(* shortest inter-Bragg spacing in one common unit, decimal Miller indices *)
(* in halves (hd2 = 2*hd) so that lrint can be computed.                   *)
(***************************************************************************)
EXTENDS Integers, Sequences, FiniteSets, TLC

\* ---------------------------------------------------------------- constants

\* #define MAX_CYCLES (10), predict-refine.c
MAX_CYCLES == 10

\* if ( n < 10 ) in refine_prediction
MinPairsRefine == 10

\* if ( n_acc < 3 ) in refine_radius
MinPairsRadius == 3

\* fabs(h) >= 512 in pair_peaks
MaxIndex == 512

\* 0.001e9 in check_outlier_transition, the unit of excitation error here
OutlierOffset == 1

\* lowest_one_over_d / 3.0 in pair_peaks
DistDivisor == 3

\* n_acc/50 in refine_radius
RadiusDivisor == 50

\* if ( n < 2 ) n = 2 in refine_radius
RadiusFloor == 2

\* #define MAX_CYCLES (10), scaling.c
SCALE_MAX_CYCLES == 10

\* (niter < 10) in scale_all
MaxOuterIterations == 10

\* if ( n < 2 ) in linear_scale
MinPairsScale == 2

\* if ( nref < 10 ) in test_gradients
MinReflections == 10

\* if ( val < 0.99 ) in the gradient check, in hundredths
MinCorrelation == 99

\* ------------------------------------------------------------------- bounds

\* Largest number of image features in the exhaustively enumerated images
MaxFeat == 3

\* Largest number of crystals and of worker threads in a scaling pass
MaxCrystals == 2

MaxThreads == 2

\* Largest total shift of -log G and of B the solver's shifts add up to
MaxDrift == 1

\* Number of Miller indices in the lists given to linear_scale
NHkl == 2

\* Largest finite value of the scaled-down double that holds a fitted G
FloatMax == 8

\* ---------------------------------------------------------------- variables

VARIABLES
    img,      \* struct image: features and what the predictor returns for them
    cr,       \* the Crystal: cell, det shift, reflection list, profile radius
    entry,    \* the Crystal as it was when the call under study was entered
    caller,   \* which entry point is running: "refine_prediction" / "refine_radius"
    rp,       \* frame of refine_prediction / refine_radius
    pp,       \* frame of pair_peaks
    rps,      \* the struct reflpeak array of the caller
    it,       \* frame of iterate
    heap,     \* what the call has allocated and not yet released
    ret       \* return status of the entry point, -1 while it runs

varsRefine == <<img, cr, entry, caller, rp, pp, rps, it, heap, ret>>

VARIABLES
    xt,       \* Crystal **crystals of scale_all / refine_all
    xt0,      \* the crystals as they were when the pass was entered
    sa,       \* frame of scale_all / refine_all
    full,     \* the merged reference list
    qa,       \* struct queue_args
    pool,     \* the thread pool's own counters
    wk,       \* the worker threads of run_threads
    handed    \* the crystal indices get_crystal / get_image has handed out, in order

varsScale == <<xt, xt0, sa, full, qa, pool, wk, handed>>

VARIABLES
    lx,       \* Crystal **crystals of scale_all_to_reference
    lx0,      \* the crystals as they were when scale_all_to_reference was entered
    lref,     \* the reference list
    sr,       \* frame of scale_all_to_reference
    ls        \* frame of linear_scale

varsLinear == <<lx, lx0, lref, sr, ls>>

VARIABLES
    gt,         \* the gradient check program: position, flags, history
    fi,         \* a find_intersections / locate_peak evaluation
    ig,         \* an integrate_peak call
    hc          \* a hill climb of search_peaks_in_panel

varsEarly == <<varsRefine, varsScale, varsLinear, gt, fi, ig, hc>>

VARIABLES
    vp,         \* a validate_peaks call
    cu,         \* a cull_peaks call
    rr,         \* the index arithmetic of refine_radius
    irf,        \* an integrate_reflections call
    gui,        \* the local GUI backend and its child process
    geo,        \* a get_detector_geometry call
    tp          \* one run_threads of scale_all, its callbacks taken in steps

varsLate == <<vp, cu, rr, irf, gui, geo, tp>>

vars == <<varsEarly, varsLate>>

\* ------------------------------------------------------------ pure helpers

Abs(x) == IF x < 0 THEN -x ELSE x

SetMin(S) == CHOOSE x \in S : \A y \in S : x <= y

SetMax(S) == CHOOSE x \in S : \A y \in S : x >= y

\* lrint() of hd2/2 in the default rounding mode (to nearest, ties to even)
Lrint2(d2) ==
    IF d2 % 2 = 0 THEN d2 \div 2
    ELSE LET lo == (d2 - 1) \div 2
         IN  IF lo % 2 = 0 THEN lo ELSE lo + 1

\* h = lrint(hd); k = lrint(kd); l = lrint(ld)
RoundedIndices(f) == <<Lrint2(f.hd2[1]), Lrint2(f.hd2[2]), Lrint2(f.hd2[3])>>

\* (h==0) && (k==0) && (l==0)
IsOrigin(hkl) == hkl = <<0, 0, 0>>

\* (fabs(h)>=512) || (fabs(k)>=512) || (fabs(l)>=512)
TooLarge(hkl) == \E a \in 1..3 : Abs(hkl[a]) >= MaxIndex

\* The geometry the predictor works with: 1 while the crystal's cell and
\* detector shift are those of the call's entry, 2 once either has moved.
World == IF cr.cell = entry.cell /\ cr.shift = entry.shift THEN 1 ELSE 2

\* What update_predictions() leaves in the reflection paired with feature f:
\* dist, the distance between predicted and observed position; ex, the
\* signed excitation error.
Predicted(f) == img.features[f].pred[World]

\* lowest_reflection(crystal_get_cell(cr))
LowestOneOverD == img.lowest[World]

\* r_dev(): the excitation error of the reflection of pair e
r_dev(e) == Predicted(e.f).ex

\* TooFar with the cutoff at half the spacing instead of a third
TooFarHalf(dist, lowest) == 2 * dist > lowest

\* modulus(...) > lowest_one_over_d / 3.0
TooFar(dist, lowest) == DistDivisor * dist > lowest

\* check_outlier_transition keeping the pair at the transition as well
OutlierTransitionInclusive(e) ==
    LET n == Len(e)
        Falls(i, j) == e[j+1] * i < OutlierOffset * i + e[i+1] * j
        Found(i) == \A j \in (i+1)..(n-1) : ~Falls(i, j)
        Cands == {i \in 1..(n-2) : Found(i)}
    IN  IF n < 3 THEN n
        ELSE IF Cands = {} THEN n ELSE SetMin(Cands) + 1

\* check_outlier_transition() on the sorted |excitation errors| e[1..n]
\* (e[i+1] is the C rps[i]); grad = e[i]/i, and the test
\* e[j] < 0.001e9 + grad*j is cleared of the division.
OutlierTransition(e) ==
    LET n == Len(e)
        Falls(i, j) == e[j+1] * i < OutlierOffset * i + e[i+1] * j
        Found(i) == \A j \in (i+1)..(n-1) : ~Falls(i, j)
        Cands == {i \in 1..(n-2) : Found(i)}
    IN  IF n < 3 THEN n
        ELSE IF Cands = {} THEN n ELSE SetMin(Cands)

\* qsort(rps, n, ..., cmpd2): every ascending order of the entries S (a set
\* of positions of arr) by |r_dev|; entries with equal keys may come out in
\* any order.
RECURSIVE SortOutcomes(_, _)
SortOutcomes(arr, S) ==
    IF S = {} THEN {<<>>}
    ELSE LET m == SetMin({Abs(r_dev(arr[p])) : p \in S})
             Firsts == {p \in S : Abs(r_dev(arr[p])) = m}
         IN  UNION {{<<arr[p]>> \o rest : rest \in SortOutcomes(arr, S \ {p})}
                    : p \in Firsts}

\* An unwritten element of the malloc'ed pair array
NoRp == [f |-> 0, hkl |-> <<0, 0, 0>>, Ih |-> <<0, 1>>]

\* arr with its first Len(s) elements replaced by s
Overlay(arr, s) == [p \in 1..Len(arr) |-> IF p <= Len(s) THEN s[p] ELSE arr[p]]

NoHeap == [rps |-> FALSE, reflist |-> FALSE, all_reflist |-> FALSE,
           in_all |-> 0, in_list |-> 0, loose |-> 0]

NoPP == [pc |-> "idle", i |-> 0, n |-> 0, n_acc |-> 0, n_final |-> 0,
         reflist |-> FALSE, lowest |-> 0]

NoIt == [pc |-> "idle", shifts |-> <<>>]

\* ---------------------------------------------------------------- pair_peaks

\* Entry of pair_peaks(image, cr, reflist, rps): all_reflist = reflist_new(),
\* lowest_one_over_d = lowest_reflection(cell); withList is reflist != NULL.
PairPeaksFrame(withList) ==
    [pc |-> "loop1", i |-> 0, n |-> 0, n_acc |-> 0, n_final |-> 0,
     reflist |-> withList, lowest |-> LowestOneOverD]

\* One pass of the first loop: the most likely indices of feature i, no
\* pairing with 000 nor with indices of 512 and more, else a provisional
\* reflection in all_reflist and the candidate rps[n].
PP_Candidate ==
    /\ pp.pc = "loop1"
    /\ pp.i < Len(img.features)
    /\ LET hkl == RoundedIndices(img.features[pp.i + 1])
       IN  IF IsOrigin(hkl) \/ TooLarge(hkl)
           THEN /\ pp' = [pp EXCEPT !.i = @ + 1]
                /\ UNCHANGED <<rps, heap>>
           ELSE /\ rps' = [rps EXCEPT ![pp.n + 1] =
                               [f |-> pp.i + 1, hkl |-> hkl, Ih |-> @.Ih]]
                /\ heap' = [heap EXCEPT !.in_all = @ + 1]
                /\ pp' = [pp EXCEPT !.i = @ + 1, !.n = @ + 1]
    /\ UNCHANGED <<img, cr, entry, caller, rp, it, ret>>

\* crystal_set_reflections(cr, all_reflist); update_predictions(cr)
PP_Predict ==
    /\ pp.pc = "loop1"
    /\ pp.i = Len(img.features)
    /\ cr' = [cr EXCEPT !.refls = "all_reflist"]
    /\ pp' = [pp EXCEPT !.pc = "loop2", !.i = 0]
    /\ UNCHANGED <<img, entry, caller, rp, rps, it, heap, ret>>

\* One pass of the second loop: candidate i is kept, as rps[n_acc] with a
\* copy of its reflection, unless its prediction is too far from the peak.
PP_Accept ==
    /\ pp.pc = "loop2"
    /\ pp.i < pp.n
    /\ IF TooFar(Predicted(rps[pp.i + 1].f).dist, pp.lowest)
       THEN /\ pp' = [pp EXCEPT !.i = @ + 1]
            /\ UNCHANGED <<rps, heap>>
       ELSE /\ rps' = [rps EXCEPT ![pp.n_acc + 1] = rps[pp.i + 1]]
            /\ heap' = [heap EXCEPT !.loose = @ + 1]
            /\ pp' = [pp EXCEPT !.i = @ + 1, !.n_acc = @ + 1]
    /\ UNCHANGED <<img, cr, entry, caller, rp, it, ret>>

\* reflist_free(all_reflist); crystal_set_reflections(cr, NULL)
PP_FreeAll ==
    /\ pp.pc = "loop2"
    /\ pp.i = pp.n
    /\ heap' = [heap EXCEPT !.all_reflist = FALSE, !.in_all = 0]
    /\ cr' = [cr EXCEPT !.refls = "NULL"]
    /\ pp' = [pp EXCEPT !.pc = "outlier"]
    /\ UNCHANGED <<img, entry, caller, rp, rps, it, ret>>

\* n_final = check_outlier_transition(rps, n_acc, ...): for n_acc >= 3 the
\* accepted pairs are sorted by |excitation error| and cut at the transition.
PP_Outlier ==
    /\ pp.pc = "outlier"
    /\ IF pp.n_acc < 3
       THEN /\ pp' = [pp EXCEPT !.pc = "add", !.n_final = pp.n_acc]
            /\ UNCHANGED rps
       ELSE \E s \in SortOutcomes(rps, 1..pp.n_acc) :
                /\ rps' = Overlay(rps, s)
                /\ pp' = [pp EXCEPT !.pc = "add", !.n_final =
                       OutlierTransition([p \in 1..pp.n_acc |-> Abs(r_dev(s[p]))])]
    /\ UNCHANGED <<img, cr, entry, caller, rp, it, heap, ret>>

\* The final accepted reflections go to the caller's list, if there is one.
PP_AddToList ==
    /\ pp.pc = "add"
    /\ IF pp.reflist
       THEN heap' = [heap EXCEPT !.in_list = @ + pp.n_final,
                                 !.loose = @ - pp.n_final]
       ELSE UNCHANGED heap
    /\ pp' = [pp EXCEPT !.pc = "free"]
    /\ UNCHANGED <<img, cr, entry, caller, rp, rps, it, ret>>

\* Variant: the freeing loop starts one position after the cutoff.
PP_FreeOutliersFromNext ==
    /\ pp.pc = "free"
    /\ heap' = [heap EXCEPT !.loose = @ - (IF pp.n_acc > pp.n_final
                                            THEN pp.n_acc - pp.n_final - 1
                                            ELSE 0)]
    /\ pp' = [pp EXCEPT !.pc = "ret"]
    /\ UNCHANGED <<img, cr, entry, caller, rp, rps, it, ret>>

\* Free the reflections beyond the outlier cutoff; return n_final.
PP_FreeOutliers ==
    /\ pp.pc = "free"
    /\ heap' = [heap EXCEPT !.loose = @ - (pp.n_acc - pp.n_final)]
    /\ pp' = [pp EXCEPT !.pc = "ret"]
    /\ UNCHANGED <<img, cr, entry, caller, rp, rps, it, ret>>

PairPeaks ==
    \/ PP_Candidate
    \/ PP_Predict
    \/ PP_Accept
    \/ PP_FreeAll
    \/ PP_Outlier
    \/ PP_AddToList
    \/ PP_FreeOutliers

\* ------------------------------------------------------------- refine_radius

\* rps = malloc(...); reflist = reflist_new(); pair_peaks(image, cr, reflist, rps)
RR_Start ==
    /\ caller = "refine_radius"
    /\ rp.pc = "start"
    /\ heap' = [heap EXCEPT !.rps = TRUE, !.reflist = TRUE, !.all_reflist = TRUE]
    /\ pp' = PairPeaksFrame(TRUE)
    /\ rp' = [rp EXCEPT !.pc = "pair1", !.calls = @ + 1]
    /\ UNCHANGED <<img, cr, entry, caller, rps, it, ret>>

\* The index without the n_acc/50 term
RadiusIndexTop(n_acc) ==
    LET n == n_acc - 1
    IN  IF n < RadiusFloor THEN RadiusFloor ELSE n

\* Index of the pair whose |excitation error| becomes the profile radius
RadiusIndex(n_acc) ==
    LET n == (n_acc - 1) - (n_acc \div RadiusDivisor)
    IN  IF n < RadiusFloor THEN RadiusFloor ELSE n

\* The rest of refine_radius once pair_peaks has returned n_acc.
RR_Estimate ==
    /\ caller = "refine_radius"
    /\ rp.pc = "pair1"
    /\ pp.pc = "ret"
    /\ pp' = NoPP
    /\ IF pp.n_final < MinPairsRadius
       THEN /\ heap' = [heap EXCEPT !.rps = FALSE, !.reflist = FALSE, !.in_list = 0]
            /\ ret' = 1
            /\ rp' = [rp EXCEPT !.pc = "done", !.n = pp.n_final]
            /\ UNCHANGED <<cr, rps>>
       ELSE \E s \in SortOutcomes(rps, 1..pp.n_final) :
                /\ rps' = Overlay(rps, s)
                /\ cr' = [cr EXCEPT !.refls = "NULL",
                              !.radius = Abs(r_dev(s[RadiusIndex(pp.n_final) + 1]))]
                /\ heap' = [heap EXCEPT !.rps = FALSE, !.reflist = FALSE, !.in_list = 0]
                /\ ret' = 0
                /\ rp' = [rp EXCEPT !.pc = "done", !.n = pp.n_final]
    /\ UNCHANGED <<img, entry, caller, it>>

\* ------------------------------------------------------------------ iterate

\* One component of the vector solve_svd() returns: not-a-number, or v
Num(v) == [nan |-> FALSE, v |-> v]

NaN == [nan |-> TRUE, v |-> 0]

\* The shift vectors the solver is taken to return: v for every one of the
\* 11 parameters, except not-a-number for parameter p (no such p when p = 0)
ShiftVector(v, p) == [k \in 1..11 |-> IF k = p THEN NaN ELSE Num(v)]

ShiftFamily == {ShiftVector(v, p) : v \in {0, 1}, p \in {0, 1, 10}}

\* if ( isnan(gsl_vector_get(shifts, i)) ) gsl_vector_set(shifts, i, 0.0)
ClampNaN(shifts) == [k \in 1..11 |-> IF shifts[k].nan THEN Num(0) ELSE shifts[k]]

\* ApplyShifts writing back only the three components of a*
ApplyShiftsAstarOnly(cell, shifts) ==
    [k \in 1..9 |-> IF k <= 3 THEN cell[k] + shifts[k].v ELSE cell[k]]

\* asx += shifts[0]; ... csz += shifts[8]; cell_set_reciprocal(cell, ...)
ApplyShifts(cell, shifts) == [k \in 1..9 |-> cell[k] + shifts[k].v]

\* *total_x += shifts[9]; *total_y += shifts[10]
ApplyTotals(total, shifts) == <<total[1] + shifts[10].v, total[2] + shifts[11].v>>

\* The normal equations are built and handed to solve_svd(), which returns
\* NULL or a vector of shifts.
IT_Solve ==
    /\ it.pc = "solve"
    /\ \/ it' = [it EXCEPT !.pc = "failed"]
       \/ \E sh \in ShiftFamily : it' = [pc |-> "clamp", shifts |-> sh]
    /\ UNCHANGED <<img, cr, entry, caller, rp, pp, rps, heap, ret>>

IT_Clamp ==
    /\ it.pc = "clamp"
    /\ it' = [pc |-> "apply", shifts |-> ClampNaN(it.shifts)]
    /\ UNCHANGED <<img, cr, entry, caller, rp, pp, rps, heap, ret>>

\* Apply shifts: the totals of the caller and the reciprocal cell
IT_Apply ==
    /\ it.pc = "apply"
    /\ rp' = [rp EXCEPT !.total = ApplyTotals(rp.total, it.shifts)]
    /\ cr' = [cr EXCEPT !.cell = ApplyShifts(cr.cell, it.shifts)]
    /\ it' = [it EXCEPT !.pc = "ok"]
    /\ UNCHANGED <<img, entry, caller, pp, rps, heap, ret>>

Iterate == IT_Solve \/ IT_Clamp \/ IT_Apply

\* --------------------------------------------------------- refine_prediction

\* Which feature is paired with which indices in the first n entries of arr
Pairing(arr, n) == [p \in 1..n |-> <<arr[p].f, arr[p].hkl>>]

\* rps = malloc(...); reflist = reflist_new(); pair_peaks(image, cr, reflist, rps)
RP_Start ==
    /\ caller = "refine_prediction"
    /\ rp.pc = "start"
    /\ heap' = [heap EXCEPT !.rps = TRUE, !.reflist = TRUE, !.all_reflist = TRUE]
    /\ pp' = PairPeaksFrame(TRUE)
    /\ rp' = [rp EXCEPT !.pc = "pair1", !.calls = @ + 1]
    /\ UNCHANGED <<img, cr, entry, caller, rps, it, ret>>

\* if ( n < 10 ) { free(rps); reflist_free(reflist); return 1; }
\* crystal_set_reflections(cr, reflist); crystal_get_det_shift(...)
RP_Paired ==
    /\ caller = "refine_prediction"
    /\ rp.pc = "pair1"
    /\ pp.pc = "ret"
    /\ pp' = NoPP
    /\ IF pp.n_final < MinPairsRefine
       THEN /\ heap' = [heap EXCEPT !.rps = FALSE, !.reflist = FALSE, !.in_list = 0]
            /\ ret' = 1
            /\ rp' = [rp EXCEPT !.pc = "done", !.n = pp.n_final, !.why = "few1"]
            /\ UNCHANGED cr
       ELSE /\ cr' = [cr EXCEPT !.refls = "reflist"]
            /\ rp' = [rp EXCEPT !.pc = "normalise", !.n = pp.n_final,
                                !.total = cr.shift, !.orig = cr.shift,
                                !.first = Pairing(rps, pp.n_final)]
            /\ UNCHANGED <<heap, ret>>
    /\ UNCHANGED <<img, entry, caller, rps, it>>

\* max_I over the n pairs (-INFINITY is never the result: n >= 10 here)
MaxIntensity(arr, n) ==
    CHOOSE m \in {img.features[arr[p].f].I : p \in 1..n} :
        \A p \in 1..n : img.features[arr[p].f].I <= m

\* rps[i].Ih = intensity / max_I for a positive intensity, else 0.0
Normalised(e, max_I) ==
    LET I == img.features[e.f].I
    IN  [e EXCEPT !.Ih = IF I > 0 THEN <<I, max_I>> ELSE <<0, 1>>]

\* Normalise the intensities to max 1; all peaks non-positive is a failure.
RP_Normalise ==
    /\ caller = "refine_prediction"
    /\ rp.pc = "normalise"
    /\ LET max_I == MaxIntensity(rps, rp.n)
       IN  IF max_I <= 0
           THEN /\ heap' = [heap EXCEPT !.rps = FALSE]
                /\ cr' = [cr EXCEPT !.refls = "NULL"]
                /\ ret' = 1
                /\ rp' = [rp EXCEPT !.pc = "done", !.why = "dark"]
                /\ UNCHANGED rps
           ELSE /\ rps' = [p \in 1..Len(rps) |->
                              IF p <= rp.n THEN Normalised(rps[p], max_I) ELSE rps[p]]
                /\ rp' = [rp EXCEPT !.pc = "cycle", !.i = 0]
                /\ UNCHANGED <<cr, heap, ret>>
    /\ UNCHANGED <<img, entry, caller, pp, it>>

\* for ( i=0; i<MAX_CYCLES; i++ ) { update_predictions(cr); iterate(...) ...
RP_Cycle ==
    /\ caller = "refine_prediction"
    /\ rp.pc = "cycle"
    /\ rp.i < MAX_CYCLES
    /\ it.pc = "idle"
    /\ it' = [pc |-> "solve", shifts |-> <<>>]
    /\ rp' = [rp EXCEPT !.upd = @ + 1, !.used = @ \cup {Pairing(rps, rp.n)}]
    /\ UNCHANGED <<img, cr, entry, caller, pp, rps, heap, ret>>

\* RP_Iterated leaving the loop once iterate() has shifted nothing
RP_IteratedUntilStill ==
    /\ caller = "refine_prediction"
    /\ rp.pc = "cycle"
    /\ it.pc \in {"ok", "failed"}
    /\ it' = NoIt
    /\ IF it.pc = "failed"
       THEN /\ cr' = [cr EXCEPT !.refls = "NULL"]
            /\ ret' = 1
            /\ rp' = [rp EXCEPT !.pc = "done", !.why = "solve"]
       ELSE /\ cr' = [cr EXCEPT !.shift = rp.total]
            /\ rp' = [rp EXCEPT !.writes = @ + 1,
                                !.i = IF \A k \in 1..11 : it.shifts[k].v = 0
                                      THEN MAX_CYCLES ELSE @ + 1]
            /\ UNCHANGED ret
    /\ UNCHANGED <<img, entry, caller, pp, rps, heap>>

\* ... if iterate() failed: crystal_set_reflections(cr, NULL); return 1;
\* else crystal_set_det_shift(cr, total_x, total_y) }
RP_Iterated ==
    /\ caller = "refine_prediction"
    /\ rp.pc = "cycle"
    /\ it.pc \in {"ok", "failed"}
    /\ it' = NoIt
    /\ IF it.pc = "failed"
       THEN /\ cr' = [cr EXCEPT !.refls = "NULL"]
            /\ ret' = 1
            /\ rp' = [rp EXCEPT !.pc = "done", !.why = "solve"]
       ELSE /\ cr' = [cr EXCEPT !.shift = rp.total]
            /\ rp' = [rp EXCEPT !.i = @ + 1, !.writes = @ + 1]
            /\ UNCHANGED ret
    /\ UNCHANGED <<img, entry, caller, pp, rps, heap>>

\* After the cycles: crystal_set_det_shift; crystal_set_reflections(cr, NULL);
\* reflist_free(reflist); n = pair_peaks(image, cr, NULL, rps)
RP_Repair ==
    /\ caller = "refine_prediction"
    /\ rp.pc = "cycle"
    /\ rp.i = MAX_CYCLES
    /\ it.pc = "idle"
    /\ cr' = [cr EXCEPT !.shift = rp.total, !.refls = "NULL"]
    /\ heap' = [heap EXCEPT !.reflist = FALSE, !.in_list = 0, !.all_reflist = TRUE]
    /\ pp' = PairPeaksFrame(FALSE)
    /\ rp' = [rp EXCEPT !.pc = "pair2", !.calls = @ + 1]
    /\ UNCHANGED <<img, entry, caller, rps, it, ret>>

\* free_rps_noreflist(rps, n); if ( n < 10 ) { restore the shift; return 1; }
RP_Finish ==
    /\ caller = "refine_prediction"
    /\ rp.pc = "pair2"
    /\ pp.pc = "ret"
    /\ pp' = NoPP
    /\ heap' = [heap EXCEPT !.rps = FALSE, !.loose = @ - pp.n_final]
    /\ IF pp.n_final < MinPairsRefine
       THEN /\ cr' = [cr EXCEPT !.shift = rp.orig]
            /\ ret' = 1
            /\ rp' = [rp EXCEPT !.pc = "done", !.n = pp.n_final, !.why = "few2"]
       ELSE /\ ret' = 0
            /\ rp' = [rp EXCEPT !.pc = "done", !.n = pp.n_final, !.why = "ok"]
            /\ UNCHANGED cr
    /\ UNCHANGED <<img, entry, caller, rps, it>>

RefinePrediction ==
    \/ RP_Start
    \/ RP_Paired
    \/ RP_Normalise
    \/ RP_Cycle
    \/ RP_Iterated
    \/ RP_Repair
    \/ RP_Finish

\* ------------------------------------------------------- images and crystals

\* A feature: twice its decimal indices, its intensity, and for each geometry
\* what the predictor gives for the reflection paired with it.
Feature(hd2, I, p1, p2) == [hd2 |-> hd2, I |-> I, pred |-> <<p1, p2>>]

Pred(dist, ex) == [dist |-> dist, ex |-> ex]

\* A feature close to reflection (k,0,0) whose excitation error grows with k:
\* sorted, such features show no outlier transition.
Bragg(k, I) == Feature(<<2 * k, 0, 0>>, I, Pred(0, k - 1), Pred(0, k - 1))

\* A feature that rounds to 000 and one whose index is too large for pairing
AtOrigin == Feature(<<1, 0, -1>>, 5, Pred(0, 0), Pred(0, 0))

OffScale == Feature(<<0, 1023, 0>>, 5, Pred(0, 0), Pred(0, 0))

\* The images refine_prediction is run on
RefineImages ==
    LET good  == [k \in 1..10 |-> Bragg(k, IF k % 3 = 0 THEN 0 ELSE k)]
        few   == [k \in 1..9 |-> Bragg(k, k)]
        \* feature 10 moves away from its prediction once the geometry moves
        drift == [k \in 1..10 |-> IF k < 10 THEN Bragg(k, k)
                    ELSE Feature(<<20, 0, 0>>, 10, Pred(1, 9), Pred(2, 9))]
        dark  == [k \in 1..10 |-> Bragg(k, -(k % 2))]
        \* 12 admissible features, the last one past the outlier transition
        knee  == <<AtOrigin, OffScale>> \o [k \in 1..12 |-> IF k < 12 THEN Bragg(k, k)
                    ELSE Feature(<<24, 0, 0>>, 1, Pred(0, 14), Pred(0, 14))]
        \* as knee, but one admissible feature fewer
        cut   == [k \in 1..11 |-> IF k < 11 THEN Bragg(k, k)
                    ELSE Feature(<<22, 0, 0>>, 1, Pred(0, -13), Pred(0, -13))]
    IN  {[features |-> fs, lowest |-> <<3, 3>>] : fs \in {good, few, drift, dark, knee, cut}}

\* The features of the exhaustively enumerated images: inadmissible indices,
\* and admissible ones at every distance (below, at and above a third of the
\* spacing) and several excitation errors
PairFeatures ==
    {AtOrigin, OffScale}
    \cup {Feature(<<3, -1021, 0>>, 1, Pred(d, e), Pred(d, e)) :
             d \in 0..2, e \in {0, 1, -3}}

RECURSIVE SeqsUpTo(_, _)
SeqsUpTo(S, n) ==
    IF n = 0 THEN {<<>>}
    ELSE LET shorter == SeqsUpTo(S, n - 1)
         IN  shorter \cup {Append(q, x) : q \in {r \in shorter : Len(r) = n - 1}, x \in S}

PairImages ==
    {[features |-> fs, lowest |-> <<l, l>>] : fs \in SeqsUpTo(PairFeatures, MaxFeat), l \in {3, 4}}

\* The crystal handed in by indexing: a cell (9 reciprocal components), a
\* detector shift, no reflection list, a profile radius
Crystals ==
    {[cell |-> <<10, 0, 0, 0, 10, 0, 0, 0, 10>>, shift |-> sh, refls |-> "NULL", radius |-> 7]
        : sh \in {<<0, 0>>, <<2, -1>>}}

NoRP == [pc |-> "start", i |-> 0, n |-> 0, total |-> <<0, 0>>, orig |-> <<0, 0>>,
         why |-> "none", calls |-> 0, first |-> <<>>, upd |-> 0, used |-> {},
         writes |-> 0]

InitCall(who, images) ==
    /\ caller = who
    /\ img \in images
    /\ cr \in Crystals
    /\ entry = cr
    /\ rp = NoRP
    /\ pp = NoPP
    /\ rps = [p \in 1..Len(img.features) |-> NoRp]
    /\ it = NoIt
    /\ heap = NoHeap
    /\ ret = -1


\* ------------------------------------------------------------ scaling data

\* floor(log2(x)) for x >= 1: the model's intensities, partialities and
\* Lorentz factors are powers of two, and log is taken to base 2
RECURSIVE Log2(_)
Log2(x) == IF x <= 1 THEN 0 ELSE 1 + Log2(x \div 2)

\* Sum of f[x] over the finite set S
RECURSIVE SumOver(_, _)
SumOver(f, S) ==
    IF S = {} THEN 0
    ELSE LET x == CHOOSE y \in S : TRUE
         IN  f[x] + SumOver(f, S \ {x})

\* A reflection of a crystal: index, free flag, intensity and its esd,
\* partiality in quarters, Lorentz factor, squared resolution
Refl(h, free, I, esd, p4, L, s2) ==
    [h |-> h, free |-> free, I |-> I, esd |-> esd, p4 |-> p4, L |-> L, s2 |-> s2]

\* log(p) of a partiality held in quarters
LogP(r) == Log2(r.p4) - 2

\* The reflection lists of the crystals that are scaled: strong reflections
\* only; a free-flagged one and one measured nowhere else; a zero partiality,
\* a weak one and a negative intensity
ReflLists ==
    { << Refl(1, FALSE, 4, 1, 4, 1, 0), Refl(2, FALSE, 8, 1, 2, 1, 1) >>,
      << Refl(1, FALSE, 8, 1, 4, 1, 0), Refl(2, TRUE, 8, 1, 4, 2, 1),
         Refl(3, FALSE, 4, 1, 4, 1, 1) >>,
      << Refl(1, FALSE, 16, 1, 0, 1, 0), Refl(2, FALSE, 16, 8, 4, 1, 1),
         Refl(3, FALSE, -4, 1, 4, 1, 1) >> }

\* A crystal before scaling: G = 1 (osf holds log2 G), B = 0, no user flag
Xtal(refls) ==
    [osf |-> 0, Bfac |-> 0, flag |-> "none",
     cell |-> <<10, 0, 0, 0, 10, 0, 0, 0, 10>>, shift |-> <<0, 0>>,
     radius |-> 7, refls |-> refls]

\* find_refl(list, h): the position of h in the list, 0 for NULL
FindRefl(list, h) ==
    IF \E p \in 1..Len(list) : list[p].h = h
    THEN SetMin({p \in 1..Len(list) : list[p].h = h})
    ELSE 0

\* merge_intensities(): a new list holding, for every index measured in an
\* unflagged crystal, the mean intensity and the number of measurements
MergeIntensities(crystals) ==
    LET used == {c \in 1..Len(crystals) : crystals[c].flag = "none"}
        obs(h) == {c \in used : FindRefl(crystals[c].refls, h) # 0}
        hs == UNION {{crystals[c].refls[p].h : p \in 1..Len(crystals[c].refls)} : c \in used}
        mean(h) == SumOver([c \in obs(h) |->
                       crystals[c].refls[FindRefl(crystals[c].refls, h)].I], obs(h))
                   \div Cardinality(obs(h))
    IN  [h \in hs |-> [I |-> mean(h), red |-> Cardinality(obs(h))]]

\* ScaleUsable without the test of the intensity against 3 sigma
ScaleUsableAnyStrength(r, list) ==
    /\ ~r.free
    /\ r.h \in DOMAIN list
    /\ ~(list[r.h].red < 2)
    /\ ~(list[r.h].I <= 0)
    /\ ~(r.p4 <= 0)

\* The reflections scale_iterate puts into the normal equations
ScaleUsable(r, list) ==
    /\ ~r.free
    /\ r.h \in DOMAIN list
    /\ ~(r.I <= 3 * r.esd)
    /\ ~(list[r.h].red < 2)
    /\ ~(list[r.h].I <= 0)
    /\ ~(r.p4 <= 0)

\* Variant: the free-flagged reflections are left out even with free = 0
ResidualUsableWorkOnly(r, list, free) ==
    /\ ~r.free
    /\ r.h \in DOMAIN list
    /\ ~(r.I <= 3 * r.esd)
    /\ ~(list[r.h].red < 2)
    /\ ~(list[r.h].I <= 0)
    /\ ~(r.p4 <= 0)

\* The reflections log_residual(cr, full, free, ...) sums over
ResidualUsable(r, list, free) ==
    /\ ~(free /\ ~r.free)
    /\ r.h \in DOMAIN list
    /\ ~(r.I <= 3 * r.esd)
    /\ ~(list[r.h].red < 2)
    /\ ~(list[r.h].I <= 0)
    /\ ~(r.p4 <= 0)

\* fx = -log(G) + log(p) - log(L) - B*s*s + log(I_full); dc = log(I_partial) - fx
LogDeviation(c, r, list) ==
    Log2(r.I) - (-c.osf + LogP(r) - Log2(r.L) - c.Bfac * r.s2 + Log2(list[r.h].I))

\* log_residual(): the summed squared deviation
LogResidual(c, list, free) ==
    LET used == {p \in 1..Len(c.refls) : ResidualUsable(c.refls[p], list, free)}
    IN  SumOver([p \in used |-> LogDeviation(c, c.refls[p], list) * LogDeviation(c, c.refls[p], list)],
                used)

\* total_log_r(): the residual summed over the unflagged crystals
TotalLogR(crystals, list) ==
    LET used == {c \in 1..Len(crystals) : crystals[c].flag = "none"}
    IN  SumOver([c \in used |-> LogResidual(crystals[c], list, FALSE)], used)

\* apply_shift() moving the profile radius along with the B factor
ApplyShiftAndRadius(c, k, shift) ==
    IF k = "BFAC" THEN [c EXCEPT !.Bfac = @ + shift, !.radius = @ + shift]
    ELSE [c EXCEPT !.osf = -(-@ + shift)]

\* apply_shift(cr, k, shift): B += shift, or -log(G) += shift
ApplyShift(c, k, shift) ==
    IF k = "BFAC" THEN [c EXCEPT !.Bfac = @ + shift]
    ELSE [c EXCEPT !.osf = -(-@ + shift)]

\* The pairs of shifts (for -log G and for B) solve_svd is taken to return
\* for crystal c: the parameters move by at most MaxDrift in all
ScaleShifts(c) ==
    {sh \in {<<0, 0>>, <<1, 0>>, <<0, 1>>} :
        /\ Abs(-c.osf + sh[1]) <= MaxDrift
        /\ Abs(c.Bfac + sh[2]) <= MaxDrift}

\* The positions in the crystal's list of the reflections that add to M and v
Contributors(c, list) == {p \in 1..Len(c.refls) : ScaleUsable(c.refls[p], list)}

\* Number of reflections that went into the normal equations
ScaleCount(c, list) ==
    Cardinality({p \in 1..Len(c.refls) : ScaleUsable(c.refls[p], list)})

\* scale_iterate(cr, full, pmodel, &nr): the crystals it can leave behind,
\* with too few reflections, after a failed solve, or with the shifts applied
ScaleIterate(c, list) ==
    IF ScaleCount(c, list) < 2
    THEN {[c EXCEPT !.flag = "FEWREFL"]}
    ELSE {[c EXCEPT !.flag = "SOLVEFAIL"]}
         \cup {ApplyShift(ApplyShift(c, "OSF", sh[1]), "BFAC", sh[2]) : sh \in ScaleShifts(c)}

\* fabs(dev - old_dev) < dev*0.01
\* Converged with a change of exactly 1% counted as small too
ConvergedOrEqual(dev, old_dev) == 100 * Abs(dev - old_dev) <= dev

Converged(dev, old_dev) == 100 * Abs(dev - old_dev) < dev


\* ------------------------------------------------ thread pool and its tasks

\* The pool's task_defaults copy with its crystal, and the queue afterwards,
\* for a source that never advances n_started
GetCrystalSameIndex(q) ==
    [task |-> [crystal |-> q.n_started + 1, full |-> q.full, n_reflections |-> 0,
               refined |-> FALSE],
     qa |-> q]

\* get_crystal(): task->crystal = qargs->crystals[qargs->n_started];
\* qargs->n_started++ (crystals are numbered from 1 here)
GetCrystal(q) ==
    [task |-> [crystal |-> q.n_started + 1, full |-> q.full, n_reflections |-> 0,
               refined |-> FALSE],
     qa |-> [q EXCEPT !.n_started = @ + 1]]

\* get_image() of post-refinement: the same hand-out for refine_all
GetImage(q) ==
    [task |-> [crystal |-> q.n_started + 1, full |-> q.full, n_reflections |-> 0,
               refined |-> FALSE],
     qa |-> [q EXCEPT !.n_started = @ + 1]]

\* done_crystal(): qa->n_done++; qa->n_reflections += wargs->n_reflections
DoneCrystal(q, task) ==
    [q EXCEPT !.n_done = @ + 1, !.n_reflections = @ + task.n_reflections]

\* done_image(): qa->n_done++
DoneImage(q, task) == [q EXCEPT !.n_done = @ + 1]

NoTask == [crystal |-> 0, full |-> 0, n_reflections |-> 0, refined |-> FALSE]

IdleWorker == [pc |-> "idle", task |-> NoTask, i |-> 0, old_dev |-> 0, used |-> {}]

NoQueue == [n_started |-> 0, n_done |-> 0, n_reflections |-> 0, full |-> 0]

NoPool == [n_started |-> 0, n_completed |-> 0, max |-> 0]

\* run_threads(): the pool's counters start at zero and its workers idle
StartPool(nthreads, max) ==
    /\ pool' = [n_started |-> 0, n_completed |-> 0, max |-> max]
    /\ wk' = [w \in 1..nthreads |-> IdleWorker]
    /\ handed' = <<>>

\* A worker, holding the pool's lock, takes the next task from the source.
W_Get(w) ==
    /\ sa.pc = "threads"
    /\ wk[w].pc = "idle"
    /\ pool.n_started < pool.max
    /\ LET got == IF sa.entry = "scale_all" THEN GetCrystal(qa) ELSE GetImage(qa)
       IN  /\ qa' = got.qa
           /\ wk' = [wk EXCEPT ![w] = [IdleWorker EXCEPT !.pc = "got", !.task = got.task]]
           /\ handed' = Append(handed, got.task.crystal)
    /\ pool' = [pool EXCEPT !.n_started = @ + 1]
    /\ UNCHANGED <<xt, xt0, sa, full>>

\* A worker finding that every task has been started leaves.
W_Exit(w) ==
    /\ sa.pc = "threads"
    /\ wk[w].pc = "idle"
    /\ pool.n_started >= pool.max
    /\ wk' = [wk EXCEPT ![w].pc = "exited"]
    /\ UNCHANGED <<xt, xt0, sa, full, qa, pool, handed>>

\* scale_crystal -> do_scale_refine: old_dev = log_residual(cr, full, 0, ...)
W_Begin(w) ==
    /\ sa.entry = "scale_all"
    /\ wk[w].pc = "got"
    /\ wk' = [wk EXCEPT ![w].pc = "cycle", ![w].i = 0,
                        ![w].old_dev = LogResidual(xt[wk[w].task.crystal], full.refl, FALSE)]
    /\ UNCHANGED <<xt, xt0, sa, full, qa, pool, handed>>

\* One pass of the loop of do_scale_refine: scale_iterate, the new residual,
\* the convergence test
W_Cycle(w) ==
    /\ wk[w].pc = "cycle"
    /\ LET c == wk[w].task.crystal
       IN  \E after \in ScaleIterate(xt[c], full.refl) :
               LET dev == LogResidual(after, full.refl, FALSE)
                   done == Converged(dev, wk[w].old_dev)
                   i == wk[w].i + 1
               IN  /\ xt' = [xt EXCEPT ![c] = after]
                   /\ wk' = [wk EXCEPT
                          ![w].task.n_reflections = ScaleCount(xt[c], full.refl),
                          ![w].used = Contributors(xt[c], full.refl),
                          ![w].i = i,
                          ![w].old_dev = dev,
                          ![w].pc = IF i < SCALE_MAX_CYCLES /\ ~done
                                    THEN "cycle" ELSE "finished"]
    /\ UNCHANGED <<xt0, sa, full, qa, pool, handed>>

\* refine_image -> pr_refine: do_pr_refine works on copies of the crystal;
\* prdata.refined = 1 if the crystal carries no user flag
W_Refine(w) ==
    /\ sa.entry = "refine_all"
    /\ wk[w].pc = "got"
    /\ wk' = [wk EXCEPT ![w].pc = "finished",
                        ![w].task.refined = (xt[wk[w].task.crystal].flag = "none")]
    /\ UNCHANGED <<xt, xt0, sa, full, qa, pool, handed>>

\* A worker, holding the pool's lock, runs the completion callback.
W_Done(w) ==
    /\ wk[w].pc = "finished"
    /\ qa' = IF sa.entry = "scale_all" THEN DoneCrystal(qa, wk[w].task)
             ELSE DoneImage(qa, wk[w].task)
    /\ pool' = [pool EXCEPT !.n_completed = @ + 1]
    /\ wk' = [wk EXCEPT ![w] = IdleWorker]
    /\ UNCHANGED <<xt, xt0, sa, full, handed>>

Workers ==
    \E w \in DOMAIN wk :
        W_Get(w) \/ W_Exit(w) \/ W_Begin(w) \/ W_Cycle(w) \/ W_Refine(w) \/ W_Done(w)

AllExited == \A w \in DOMAIN wk : wk[w].pc = "exited"

\* ------------------------------------------------------------------ scale_all

\* A residual: INFINITY, or the value v
Infinite == [inf |-> TRUE, v |-> 0]

Finite(v) == [inf |-> FALSE, v |-> v]

\* fabs(new_res-old_res) > 0.01*old_res
StillMovingStrictly(new_res, old_res) ==
    IF old_res.inf \/ new_res.inf THEN TRUE
    ELSE 100 * Abs(new_res.v - old_res.v) > old_res.v

\* fabs(new_res-old_res) >= 0.01*old_res
StillMoving(new_res, old_res) ==
    IF old_res.inf \/ new_res.inf THEN TRUE
    ELSE 100 * Abs(new_res.v - old_res.v) >= old_res.v

\* if ( n_crystals < nthreads ) nthreads = n_crystals; new_res = INFINITY
SA_Start ==
    /\ sa.entry = "scale_all"
    /\ sa.pc = "start"
    /\ sa' = [sa EXCEPT !.pc = "merge", !.new_res = Infinite,
                        !.nthreads = IF Len(xt) < @ THEN Len(xt) ELSE @]
    /\ UNCHANGED <<xt, xt0, full, qa, pool, wk, handed>>

\* full = merge_intensities(...); old_res = new_res; bef_res = total_log_r(...)
SA_Merge ==
    /\ sa.pc = "merge"
    /\ full' = [id |-> full.id + 1, live |-> TRUE, refl |-> MergeIntensities(xt)]
    /\ sa' = [sa EXCEPT !.pc = "setup", !.old_res = sa.new_res,
                        !.bef_res = TotalLogR(xt, MergeIntensities(xt))]
    /\ UNCHANGED <<xt, xt0, qa, pool, wk, handed>>

\* qargs.task_defaults.full = full; the counters cleared; run_threads(...)
SA_RunThreads ==
    /\ sa.pc = "setup"
    /\ qa' = [n_started |-> 0, n_done |-> 0, n_reflections |-> 0, full |-> full.id]
    /\ StartPool(sa.nthreads, Len(xt))
    /\ sa' = [sa EXCEPT !.pc = "threads"]
    /\ UNCHANGED <<xt, xt0, full>>

\* run_threads has returned: new_res = total_log_r(...), the mean B
SA_Joined ==
    /\ sa.entry = "scale_all"
    /\ sa.pc = "threads"
    /\ AllExited
    /\ sa' = [sa EXCEPT !.pc = "free", !.new_res = Finite(TotalLogR(xt, full.refl))]
    /\ UNCHANGED <<xt, xt0, full, qa, pool, wk, handed>>

\* reflist_free(full) run while the workers may still be out
SA_FreeEarly ==
    /\ sa.pc = "free" \/ (sa.pc = "threads" /\ full.live)
    /\ full' = [full EXCEPT !.live = FALSE]
    /\ sa' = [sa EXCEPT !.pc = IF @ = "free" THEN "test" ELSE @, !.niter = @ + 1]
    /\ UNCHANGED <<xt, xt0, qa, pool, wk, handed>>

\* reflist_free(full); niter++
SA_Free ==
    /\ sa.pc = "free"
    /\ full' = [full EXCEPT !.live = FALSE]
    /\ sa' = [sa EXCEPT !.pc = "test", !.niter = @ + 1]
    /\ UNCHANGED <<xt, xt0, qa, pool, wk, handed>>

\* while ( (fabs(new_res-old_res) >= 0.01*old_res) && (niter < 10) );
\* if ( niter == 10 ) ERROR("Too many iterations - giving up!\n")
SA_Test ==
    /\ sa.pc = "test"
    /\ IF StillMoving(sa.new_res, sa.old_res) /\ sa.niter < MaxOuterIterations
       THEN sa' = [sa EXCEPT !.pc = "merge"]
       ELSE sa' = [sa EXCEPT !.pc = "done", !.gave_up = (sa.niter = MaxOuterIterations)]
    /\ UNCHANGED <<xt, xt0, full, qa, pool, wk, handed>>

\* refine_all(crystals, n_crystals, full, nthreads, pmodel): the queue set
\* up and run_threads called on the caller's list
RA_Start ==
    /\ sa.entry = "refine_all"
    /\ sa.pc = "start"
    /\ qa' = [n_started |-> 0, n_done |-> 0, n_reflections |-> 0, full |-> full.id]
    /\ StartPool(IF Len(xt) < sa.nthreads THEN Len(xt) ELSE sa.nthreads, Len(xt))
    /\ sa' = [sa EXCEPT !.pc = "threads",
                        !.nthreads = IF Len(xt) < @ THEN Len(xt) ELSE @]
    /\ UNCHANGED <<xt, xt0, full>>

\* run_threads has returned to refine_all
RA_Joined ==
    /\ sa.entry = "refine_all"
    /\ sa.pc = "threads"
    /\ AllExited
    /\ sa' = [sa EXCEPT !.pc = "done"]
    /\ UNCHANGED <<xt, xt0, full, qa, pool, wk, handed>>

ScaleAll == SA_Start \/ SA_Merge \/ SA_RunThreads \/ SA_Joined \/ SA_Free \/ SA_Test

RefineAll == RA_Start \/ RA_Joined


\* --------------------------------------------------------------- linear_scale

RECURSIVE GCD(_, _)
GCD(a, b) == IF b = 0 THEN a ELSE GCD(b, a % b)

\* A scale factor: a quotient of integers in lowest terms, NaN, or infinite
Ratio(num, den) ==
    [kind |-> "num", num |-> num \div GCD(num, den), den |-> den \div GCD(num, den)]

NotANumber == [kind |-> "nan", num |-> 0, den |-> 1]

Overflowed == [kind |-> "inf", num |-> 0, den |-> 1]

Unset == [kind |-> "unset", num |-> 0, den |-> 1]

\* The reflections of list1 that reach the arrays x, y, w: found in list2,
\* both intensities positive
UsablePairs(list1, list2) ==
    {h \in DOMAIN list1 : h \in DOMAIN list2 /\ list1[h].I > 0 /\ list2[h].I > 0}

\* gsl_fit_wmul on x = Ih2/p, y = Ih1, w = p (p held in halves): only the
\* points of positive weight count, and the slope is the weighted mean of xy
\* over the weighted mean of x^2, 0/0 when no weight is positive and infinite
\* when the quotient leaves the range of a double
FitWmul(list1, list2, pairs) ==
    LET W == {h \in pairs : list2[h].p2 > 0}
        num == SumOver([h \in W |-> list1[h].I * list2[h].I], W)
        den == SumOver([h \in W |-> (2 * list2[h].I * list2[h].I) \div list2[h].p2], W)
    IN  IF W = {} THEN NotANumber
        ELSE IF num > FloatMax * den THEN Overflowed
        ELSE Ratio(num, den)

NoLS == [pc |-> "idle", n |-> 0, r |-> 0, G |-> Unset, ret |-> -1]

\* The loop over list1 that fills x, y and w, and the test n < 2
LS_Collect ==
    /\ ls.pc = "collect"
    /\ LET n == Cardinality(UsablePairs(lref, lx[sr.i].refls))
       IN  ls' = IF n < MinPairsScale
                 THEN [ls EXCEPT !.pc = "returned", !.n = n, !.ret = 1]
                 ELSE [ls EXCEPT !.pc = "fit", !.n = n]
    /\ UNCHANGED <<lx, lx0, lref, sr>>

\* r = gsl_fit_wmul(...); if ( r ) return 1; if ( isnan(*G) ) abort();
\* the arrays freed; return 0
LS_Fit ==
    /\ ls.pc = "fit"
    /\ \/ ls' = [ls EXCEPT !.pc = "returned", !.r = 1, !.ret = 1]
       \/ LET G == FitWmul(lref, lx[sr.i].refls, UsablePairs(lref, lx[sr.i].refls))
          IN  ls' = IF G.kind = "nan"
                    THEN [ls EXCEPT !.pc = "aborted", !.G = G]
                    ELSE [ls EXCEPT !.pc = "returned", !.G = G, !.ret = 0]
    /\ UNCHANGED <<lx, lx0, lref, sr>>

\* ----------------------------------------------------- scale_all_to_reference

\* crystal_set_osf(crystals[i], G); crystal_set_Bfac(crystals[i], 0.0)
SetOsfAndBfac(c, G) == [c EXCEPT !.osf = G, !.Bfac = 0]

\* for ( i=0; i<n_crystals; i++ ): linear_scale(reference, ..., &G) is called
SR_Call ==
    /\ sr.pc = "loop"
    /\ sr.i <= Len(lx)
    /\ sr' = [sr EXCEPT !.pc = "wait"]
    /\ ls' = [NoLS EXCEPT !.pc = "collect"]
    /\ UNCHANGED <<lx, lx0, lref>>

\* linear_scale has returned: on 0 the crystal takes G and B = 0, otherwise
\* only the error is logged; i++
SR_Result ==
    /\ sr.pc = "wait"
    /\ ls.pc = "returned"
    /\ lx' = IF ls.ret = 0 THEN [lx EXCEPT ![sr.i] = SetOsfAndBfac(@, ls.G)] ELSE lx
    /\ sr' = [sr EXCEPT !.pc = "loop", !.i = @ + 1, !.rets = Append(@, ls.ret)]
    /\ ls' = NoLS
    /\ UNCHANGED <<lx0, lref>>

\* The loop has run over every crystal
SR_Finish ==
    /\ sr.pc = "loop"
    /\ sr.i > Len(lx)
    /\ sr' = [sr EXCEPT !.pc = "done"]
    /\ UNCHANGED <<lx, lx0, lref, ls>>

\* A reflection of a crystal: intensity and partiality in halves
Measured == {[I |-> 1, p2 |-> 2], [I |-> 1, p2 |-> 0], [I |-> -1, p2 |-> 2],
             [I |-> 1, p2 |-> 1]}

\* The reflection lists over up to NHkl indices
MeasuredLists == UNION {[D -> Measured] : D \in SUBSET (1..NHkl)}

\* The reference lists: every index with a zero, a middling or a large intensity
ReferenceLists == [1..NHkl -> {[I |-> 0], [I |-> 2], [I |-> 9]}]

\* A crystal before scale_all_to_reference: G = 1, B = 3
LXtal(refls) == [osf |-> Ratio(1, 1), Bfac |-> 3, refls |-> refls]

\* ------------------------------------------- prediction gradient check (test)

\* enum gparam: the nine reciprocal cell components and the detector shifts
CellParams == {"ASX", "ASY", "ASZ", "BSX", "BSY", "BSZ", "CSX", "CSY", "CSZ"}

AllParams == CellParams \cup {"DETX", "DETY"}

\* The calls of test_gradients main makes for every quantity alike
TestsForEvery(checkrxy) ==
    <<"ASX", "BSX", "CSX", "ASY", "BSY", "CSY", "ASZ", "BSZ", "CSZ">>

\* The calls of test_gradients main makes for quantity checkrxy (0 excitation
\* error, 1 x, 2 y), in order: the x components unless checkrxy is 2, the y
\* components unless it is 1, the z components always
TestsFor(checkrxy) ==
    (IF checkrxy # 2 THEN <<"ASX", "BSX", "CSX">> ELSE <<>>)
    \o (IF checkrxy # 1 THEN <<"ASY", "BSY", "CSY">> ELSE <<>>)
    \o <<"ASZ", "BSZ", "CSZ">>

\* A correlation coefficient in hundredths, or NaN
Coefficient(v) == [nan |-> FALSE, v |-> v]

CoefficientNaN == [nan |-> TRUE, v |-> 0]

\* What gsl_stats_correlation can give
Coefficients == {CoefficientNaN, Coefficient(MinCorrelation - 1),
                 Coefficient(MinCorrelation), Coefficient(100)}

\* test_gradients(): 0.0 when fewer than 10 reflections are predicted,
\* otherwise the correlation of the analytic with the numerical gradient
TestGradients(nref, cc) == IF nref < MinReflections THEN Coefficient(0) ELSE cc

\* val < 0.99
BelowThreshold(val) == ~val.nan /\ val.v < MinCorrelation

\* for ( checkrxy=0; checkrxy<3; checkrxy++ ): a random orientation, which
\* fixes the number of predicted reflections of the round
GT_Round ==
    /\ gt.pc = "round"
    /\ gt.checkrxy < 3
    /\ \E nref \in {MinReflections - 1, MinReflections, MinReflections + 1} :
          gt' = [gt EXCEPT !.pc = "test", !.k = 1, !.nref = nref]

\* val = test_gradients(...); if ( val < 0.99 ) fail = 1
GT_Test ==
    /\ gt.pc = "test"
    /\ \E cc \in Coefficients :
          LET tests == TestsFor(gt.checkrxy)
              val == TestGradients(gt.nref, cc)
              last == gt.k = Len(tests)
          IN  gt' = [gt EXCEPT
                  !.val = val,
                  !.fail = IF BelowThreshold(val) THEN 1 ELSE @,
                  !.low = @ \/ (~val.nan /\ val.v < MinCorrelation),
                  !.nan = @ \/ val.nan,
                  !.tested = @ \cup {<<gt.checkrxy, tests[gt.k]>>},
                  !.k = IF last THEN 0 ELSE @ + 1,
                  !.checkrxy = IF last THEN @ + 1 ELSE @,
                  !.pc = IF last THEN "round" ELSE "test"]

\* return fail
GT_Return ==
    /\ gt.pc = "round"
    /\ gt.checkrxy = 3
    /\ gt' = [gt EXCEPT !.pc = "returned", !.ret = gt.fail]

\* ------------------------------------------ geometry of diffraction (geometry.c)
\* Lengths in reciprocal space are integers: the profile cutoff is the unit
\* and the resolution limit is shortened to 24 of them.
\* An image gives the three wavenumbers; a cell gives its reciprocal axes.

MAX_CPEAKS == 65536

\* profile_cutoff and mres of find_intersections, in units of the cutoff
ProfileCutoff == 1
MRes == 24

Images == { [klow |-> 48, kcen |-> 40, khigh |-> 34] }

Vec(x, y, z) == [x |-> x, y |-> y, z |-> z]

Cells == { [as |-> Vec(8, 0, 0), bs |-> Vec(0, 8, 0), cs |-> Vec(0, 0, 8)],
           [as |-> Vec(12, 0, 2), bs |-> Vec(0, 12, 2), cs |-> Vec(0, 0, 10)],
           [as |-> Vec(-21, 0, 6), bs |-> Vec(0, 12, 0), cs |-> Vec(0, 0, 12)] }

Panel(clen, res, cx, cy, min_x, max_x, min_y, max_y) ==
    [clen |-> clen, res |-> res, cx |-> cx, cy |-> cy,
     min_x |-> min_x, max_x |-> max_x, min_y |-> min_y, max_y |-> max_y]

PanelMid == Panel(20, 1, 0, 0, -8, 8, -8, 8)
PanelRight == Panel(20, 1, 0, 0, 4, 16, -8, 8)
PanelLeft == Panel(20, 1, 0, 0, -16, -4, -8, 8)
PanelFar == Panel(40, 1, 2, 0, -16, 16, -16, 16)

\* The detectors: no panel, one, overlapping panels in both orders, disjoint
\* panels, three panels of which two or all three overlap
Detectors ==
    { << >>, << PanelMid >>, << PanelMid, PanelRight >>,
      << PanelRight, PanelMid >>, << PanelLeft, PanelRight >>,
      << PanelLeft, PanelMid, PanelRight >>, << PanelFar, PanelLeft, PanelMid >> }

ModulusSquared(v) == v.x * v.x + v.y * v.y + v.z * v.z

\* (int)(mres / modulus(v)): the largest n with n * |v| <= mres
IndexLimit(v) ==
    SetMax({n \in 0..MRes : n * n * ModulusSquared(v) <= MRes * MRes})

\* num/den < b and num/den > b for a quotient of doubles: a zero denominator
\* gives an infinity, or a NaN for 0/0, and every comparison with NaN is false
QuotientLess(num, den, b) ==
    IF den > 0 THEN num < b * den
    ELSE IF den < 0 THEN num > b * den
    ELSE num < 0

QuotientGreater(num, den, b) ==
    IF den > 0 THEN num > b * den
    ELSE IF den < 0 THEN num < b * den
    ELSE num > 0

\* The four tests of locate_peak for one panel: xda = cl*x/den*res + cx
OnPanel(pn, x, y, den) ==
    LET xnum == pn.clen * x * pn.res + pn.cx * den
        ynum == pn.clen * y * pn.res + pn.cy * den
    IN  /\ ~QuotientLess(xnum, den, pn.min_x)
        /\ ~QuotientGreater(xnum, den, pn.max_x)
        /\ ~QuotientLess(ynum, den, pn.min_y)
        /\ ~QuotientGreater(ynum, den, pn.max_y)

\* The loop of locate_peak from panel p on (panels are numbered from 0)
RECURSIVE LocateFrom(_, _, _, _, _, _)
LocateFrom(p, found, x, y, den, det) ==
    IF p >= Len(det) THEN found
    ELSE IF ~OnPanel(det[p + 1], x, y, den)
         THEN LocateFrom(p + 1, found, x, y, den, det)
         ELSE IF found # -1 THEN -1
              ELSE LocateFrom(p + 1, p, x, y, den, det)

\* locate_peak that takes the first panel the peak is on
LocatePeakFirst(x, y, z, k, det) ==
    LET on == {p \in 0..(Len(det) - 1) : OnPanel(det[p + 1], x, y, k + z)}
    IN  IF on = {} THEN -1 ELSE SetMin(on)

LocatePeak(x, y, z, k, det) == LocateFrom(0, -1, x, y, k + z, det)

\* The position locate_peak hands back for panel p, as numerators over k + z
PeakPosition(pn, x, y, den) ==
    [xnum |-> pn.clen * x * pn.res + pn.cx * den,
     ynum |-> pn.clen * y * pn.res + pn.cy * den, den |-> den]

\* excitation_error: r + k is the distance of the lattice point from the centre
\* (0,0,-k) of the sphere, kept as its square D; on the beam axis sin(tt) is 0
\* and the quotient is not finite
NonFinite == { [kind |-> "nan", neg |-> TRUE, D |-> 0, k |-> 0],
               [kind |-> "nan", neg |-> FALSE, D |-> 0, k |-> 0],
               [kind |-> "inf", neg |-> FALSE, D |-> 0, k |-> 0] }

ExcitationError(xl, yl, zl, k, odd) ==
    LET D == xl * xl + yl * yl + (zl + k) * (zl + k)
    IN  IF xl = 0 /\ yl = 0 THEN odd
        ELSE [kind |-> "fin", neg |-> D < k * k, D |-> D, k |-> k]

SignBit(r) == r.neg

\* fabs(r) < profile_cutoff
WithinCutoff(r) ==
    /\ r.kind = "fin"
    /\ (r.k - ProfileCutoff) * (r.k - ProfileCutoff) < r.D
    /\ r.D < (r.k + ProfileCutoff) * (r.k + ProfileCutoff)

\* Inside taken only when neither error is within the cutoff
InsideUnlessClose(rlow, rhigh) ==
    /\ SignBit(rlow) # SignBit(rhigh)
    /\ ~WithinCutoff(rlow)
    /\ ~WithinCutoff(rhigh)

\* inside = signbit(rlow) ^ signbit(rhigh)
Inside(rlow, rhigh) == SignBit(rlow) # SignBit(rhigh)

LatticePoint(cell, h, k, l) ==
    Vec(h * cell.as.x + k * cell.bs.x + l * cell.cs.x,
        h * cell.as.y + k * cell.bs.y + l * cell.cs.y,
        h * cell.as.z + k * cell.bs.z + l * cell.cs.z)

\* What the body of the loop of find_intersections does with one lattice
\* point: the test that ended it, the two flags and the panel
Examine(image, det, cell, h, k, l, odd) ==
    LET q == LatticePoint(cell, h, k, l)
        rlow == ExcitationError(q.x, q.y, q.z, image.klow, odd)
        rhigh == ExcitationError(q.x, q.y, q.z, image.khigh, odd)
        inside == Inside(rlow, rhigh)
        close == IF inside THEN FALSE
                 ELSE WithinCutoff(rlow) \/ WithinCutoff(rhigh)
        p == LocatePeak(q.x, q.y, q.z, image.kcen, det)
        none == [hkl |-> <<h, k, l>>, q |-> q, rlow |-> odd, rhigh |-> odd,
                 inside |-> FALSE, close |-> FALSE, p |-> -1, end |-> "none"]
    IN  IF h = 0 /\ k = 0 /\ l = 0 THEN [none EXCEPT !.end = "origin"]
        ELSE IF q.z > ProfileCutoff THEN [none EXCEPT !.end = "front"]
        ELSE IF ModulusSquared(q) > MRes * MRes THEN [none EXCEPT !.end = "res"]
        ELSE IF ~(close \/ inside)
             THEN [none EXCEPT !.end = "far", !.rlow = rlow, !.rhigh = rhigh]
             ELSE [none EXCEPT !.end = IF p = -1 THEN "nopanel" ELSE "peak",
                               !.rlow = rlow, !.rhigh = rhigh,
                               !.inside = inside, !.close = close, !.p = p]

NoPoint ==
    [hkl |-> <<0, 0, 0>>, q |-> Vec(0, 0, 0),
     rlow |-> CHOOSE r \in NonFinite : TRUE, rhigh |-> CHOOSE r \in NonFinite : TRUE,
     inside |-> FALSE, close |-> FALSE, p |-> -1, end |-> "none"]

\* find_intersections up to the loops: the malloc and the index limits
FI_Start ==
    /\ fi.pc = "start"
    /\ \E ok \in BOOLEAN :
          LET hmax == IndexLimit(fi.cell.as)
              kmax == IndexLimit(fi.cell.bs)
              lmax == IndexLimit(fi.cell.cs)
          IN  fi' = IF ~ok
                    THEN [fi EXCEPT !.pc = "returned", !.n = 0, !.null = TRUE]
                    ELSE [fi EXCEPT !.pc = IF hmax = 0 \/ kmax = 0 \/ lmax = 0
                                           THEN "out" ELSE "loop",
                                    !.hmax = hmax, !.kmax = kmax, !.lmax = lmax,
                                    !.h = -hmax, !.k = -kmax, !.l = -lmax]

\* One pass of the innermost loop and the step of the three counters
FI_Point ==
    /\ fi.pc = "loop"
    /\ \E odd \in NonFinite :
          LET e == Examine(fi.image, fi.det, fi.cell, fi.h, fi.k, fi.l, odd)
              peak == e.end = "peak"
              np == IF peak THEN fi.np + 1 ELSE fi.np
              den == fi.image.kcen + e.q.z
              l2 == fi.l + 1
              k2 == IF l2 < fi.lmax THEN fi.k ELSE fi.k + 1
              h2 == IF k2 < fi.kmax THEN fi.h ELSE fi.h + 1
          IN  fi' = [fi EXCEPT
                  !.last = e,
                  !.np = np,
                  !.cpeaks = IF peak
                             THEN Append(@, [hkl |-> e.hkl,
                                             at |-> PeakPosition(fi.det[e.p + 1],
                                                        e.q.x, e.q.y, den)])
                             ELSE @,
                  !.l = IF l2 < fi.lmax THEN l2 ELSE -fi.lmax,
                  !.k = IF k2 < fi.kmax THEN k2 ELSE -fi.kmax,
                  !.h = h2,
                  !.pc = IF (peak /\ np = MAX_CPEAKS) \/ ~(h2 < fi.hmax)
                         THEN "out" ELSE "loop"]

\* out: *n = np; return cpeaks
FI_Return ==
    /\ fi.pc = "out"
    /\ fi' = [fi EXCEPT !.pc = "returned", !.n = fi.np]

\* --------------------------------------------- peak integration (peaks.c)
\* Pixels are pairs <<fs, ss>>; radii are kept as twice their value, so that
\* half-integral radii can be given; sums over the background pixels are kept
\* multiplied by the number of background pixels in place of the mean.

IPanel(min_fs, max_fs, min_ss, max_ss, no_index, max_adu) ==
    [min_fs |-> min_fs, max_fs |-> max_fs, min_ss |-> min_ss, max_ss |-> max_ss,
     no_index |-> no_index, max_adu |-> max_adu]

\* A detector of an indexable panel of 5 x 5 pixels and a no_index panel
IDetector == << IPanel(0, 4, 0, 4, FALSE, 8), IPanel(5, 6, 0, 4, TRUE, 8) >>

\* find_panel: the first panel that holds the pixel, 0 for none
FindPanel(det, fs, ss) ==
    LET on == {q \in DOMAIN det : /\ fs >= det[q].min_fs /\ fs <= det[q].max_fs
                                  /\ ss >= det[q].min_ss /\ ss <= det[q].max_ss}
    IN  IF on = {} THEN 0 ELSE SetMin(on)

\* image->data: flat, a peak, a dip below zero, a slope, a row of stairs,
\* three pixels of rising value
DataNames == {"flat", "peak", "dip", "slope", "stairs", "steps"}

DataAt(name, fs, ss) ==
    CASE name = "flat" -> 1
      [] name = "peak" -> IF fs = 2 /\ ss = 2 THEN 9 ELSE 1
      [] name = "dip" -> IF fs = 2 /\ ss = 2 THEN -9 ELSE 1
      [] name = "slope" -> fs + ss
      [] name = "stairs" -> IF ss = 2 THEN 2 * fs ELSE 0
      [] name = "steps" -> IF <<fs, ss>> = <<1, 3>> THEN 2
                           ELSE IF <<fs, ss>> = <<2, 3>> THEN 4
                           ELSE IF <<fs, ss>> = <<4, 2>> THEN 6 ELSE 0
      [] name = "stripes" -> IF fs % 2 = 0 THEN 5 ELSE 1

\* image->flags: NULL, all good, a pixel without the good bit, a pixel with a
\* bad bit; mask_good is bit 0 and mask_bad is bit 1
FlagNames == {"null", "good", "nogood", "bad"}

FlagsAt(name, fs, ss) ==
    CASE name = "good" -> 1
      [] name = "nogood" -> IF fs = 3 /\ ss = 2 THEN 0 ELSE 1
      [] name = "bad" -> IF fs = 2 /\ ss = 4 THEN 3 ELSE 1
      [] OTHER -> 1

HasGoodBits(flags) == flags % 2 = 1

HasBadBits(flags) == (flags \div 2) % 2 = 1

\* The flag tests without the test of the bad bits
FlagsVetoGoodOnly(name, fs, ss) ==
    /\ name # "null"
    /\ ~HasGoodBits(FlagsAt(name, fs, ss))

\* The flag tests of integrate_peak for one pixel: TRUE when the peak is vetoed
FlagsVeto(name, fs, ss) ==
    /\ name # "null"
    /\ \/ ~HasGoodBits(FlagsAt(name, fs, ss))
       \/ HasBadBits(FlagsAt(name, fs, ss))

\* The pixels in_bad_region answers for
BadRegions == { {}, {<<1, 1>>} }

InBadRegion(bad, fs, ss) == <<fs, ss>> \in bad

\* bgPkMask: NULL, nothing set, two pixels set, every pixel set
MaskNames == {"null", "empty", "two", "all"}

Masked(name, pfs, pss) ==
    CASE name = "null" -> FALSE
      [] name = "empty" -> FALSE
      [] name = "two" -> <<pfs, pss>> \in {<<3, 2>>, <<2, 4>>}
      [] name = "all" -> TRUE

\* ir_inn, ir_mid, ir_out, each times two
Radii == { <<2, 2, 4>>, <<0, 2, 2>>, <<3, 4, 4>>, <<2, 6, 4>>, <<-2, 2, 4>> }

Centres == { <<2, 2>>, <<1, 2>>, <<3, 3>>, <<5, 2>>, <<7, 2>> }

\* The conversion of a radius to the int loop bound
ToInt(r2) == IF r2 >= 0 THEN r2 \div 2 ELSE -((-r2) \div 2)

\* The offsets dfs, dss of two nested for loops from -r to +r, in loop order
LoopOffsets(r2) ==
    LET lo == ToInt(-r2)
        hi == ToInt(r2)
        w == hi - lo + 1
    IN  IF w <= 0 THEN << >>
        ELSE [q \in 1..(w * w) |-> << lo + ((q - 1) \div w), lo + ((q - 1) % w) >>]

\* dfs*dfs + dss*dss > r*r and < r*r for a radius given times two
BeyondRadius(d, r2) == 4 * (d[1] * d[1] + d[2] * d[2]) > r2 * r2

WithinRadius(d, r2) == 4 * (d[1] * d[1] + d[2] * d[2]) < r2 * r2

OffPanel(pn, p_cfs, p_css, d) ==
    LET p_w == pn.max_fs - pn.min_fs + 1
        p_h == pn.max_ss - pn.min_ss + 1
    IN  \/ p_cfs + d[1] >= p_w
        \/ p_css + d[2] >= p_h
        \/ p_cfs + d[1] < 0
        \/ p_css + d[2] < 0

\* The background loop from offset q on; a holds the sums so far
RECURSIVE EstimateBackground(_, _, _)
EstimateBackground(g, q, a) ==
    LET offs == LoopOffsets(g.radii[3])
        d == offs[q]
        pn == IDetector[g.p]
        fs == g.cfs + d[1]
        ss == g.css + d[2]
        val == DataAt(g.data, fs, ss)
    IN  IF q > Len(offs) THEN a
        ELSE IF BeyondRadius(d, g.radii[3]) \/ WithinRadius(d, g.radii[2])
             THEN EstimateBackground(g, q + 1, a)
        ELSE IF OffPanel(pn, g.p_cfs, g.p_css, d) THEN [a EXCEPT !.veto = "off"]
        ELSE IF InBadRegion(g.bad, pn.min_fs + g.p_cfs + d[1], pn.min_ss + g.p_css + d[2])
             THEN [a EXCEPT !.veto = "region"]
        ELSE IF Masked(g.mask, g.p_cfs + d[1], g.p_css + d[2])
             THEN EstimateBackground(g, q + 1, a)
        ELSE IF FlagsVeto(g.flags, fs, ss) THEN [a EXCEPT !.veto = "flags"]
        ELSE EstimateBackground(g, q + 1,
                 [a EXCEPT !.saturated = @ \/ (g.use_max_adu /\ val > pn.max_adu),
                           !.tot = @ + val,
                           !.tot_sq = @ + val * val,
                           !.counts = @ + 1])

\* The aperture loop from offset q on; the values are those of the pixels
\* minus the background mean, times the number of background pixels
RECURSIVE MeasurePeak(_, _, _)
MeasurePeak(g, q, a) ==
    LET offs == LoopOffsets(g.radii[1])
        d == offs[q]
        pn == IDetector[g.p]
        fs == g.cfs + d[1]
        ss == g.css + d[2]
        val == g.bg_counts * DataAt(g.data, fs, ss) - g.bg_tot
    IN  IF q > Len(offs) THEN a
        ELSE IF BeyondRadius(d, g.radii[1]) THEN MeasurePeak(g, q + 1, a)
        ELSE IF OffPanel(pn, g.p_cfs, g.p_css, d) THEN [a EXCEPT !.veto = "off"]
        ELSE IF InBadRegion(g.bad, pn.min_fs + g.p_cfs + d[1], pn.min_ss + g.p_css + d[2])
             THEN [a EXCEPT !.veto = "region"]
        ELSE IF FlagsVeto(g.flags, fs, ss) THEN [a EXCEPT !.veto = "flags"]
        ELSE MeasurePeak(g, q + 1,
                 [a EXCEPT !.saturated = @ \/ (g.use_max_adu
                                               /\ val > pn.max_adu * g.bg_counts),
                           !.counts = @ + 1,
                           !.tot = @ + val,
                           !.fsct = @ + val * fs,
                           !.ssct = @ + val * ss])

Unwritten == [set |-> FALSE, num |-> 0, den |-> 1]

Written(num, den) == [set |-> TRUE, num |-> num, den |-> den]

\* find_panel and the no_index test, then the panel-relative coordinates
IG_Find ==
    /\ ig.pc = "find"
    /\ LET p == FindPanel(IDetector, ig.cfs, ig.css)
       IN  ig' = IF p = 0 THEN [ig EXCEPT !.pc = "done", !.ret = 1, !.why = "nopanel"]
                 ELSE IF IDetector[p].no_index
                      THEN [ig EXCEPT !.pc = "done", !.ret = 1, !.why = "no_index", !.p = p]
                      ELSE [ig EXCEPT !.pc = "background", !.p = p,
                                      !.p_cfs = ig.cfs - IDetector[p].min_fs,
                                      !.p_css = ig.css - IDetector[p].min_ss]

\* The loop over the annulus and the test of bg_counts
IG_Background ==
    /\ ig.pc = "background"
    /\ LET a == EstimateBackground(ig, 1,
                    [veto |-> "no", saturated |-> FALSE, tot |-> 0, tot_sq |-> 0,
                     counts |-> 0])
           sat == [ig EXCEPT !.saturated = @ \/ a.saturated]
       IN  ig' = IF a.veto # "no"
                 THEN [sat EXCEPT !.pc = "done", !.ret = 1, !.why = a.veto]
                 ELSE IF a.counts = 0
                      THEN [sat EXCEPT !.pc = "done", !.ret = 1, !.why = "nobg"]
                      ELSE [sat EXCEPT !.pc = "peak", !.bg_tot = a.tot,
                                       !.bg_tot_sq = a.tot_sq, !.bg_counts = a.counts]

\* The loop over the aperture, the test of pk_counts and the centroid
IG_Peak ==
    /\ ig.pc = "peak"
    /\ LET a == MeasurePeak(ig, 1,
                    [veto |-> "no", saturated |-> FALSE, counts |-> 0, tot |-> 0,
                     fsct |-> 0, ssct |-> 0])
           sat == [ig EXCEPT !.saturated = @ \/ a.saturated]
       IN  ig' = IF a.veto # "no"
                 THEN [sat EXCEPT !.pc = "done", !.ret = 1, !.why = a.veto]
                 ELSE IF a.counts = 0
                      THEN [sat EXCEPT !.pc = "done", !.ret = 1, !.why = "nopk"]
                      ELSE [sat EXCEPT !.pc = "variance", !.pk_total = a.tot,
                                       !.pk_counts = a.counts,
                                       !.pfs = Written(a.fsct, a.tot),
                                       !.pss = Written(a.ssct, a.tot)]

\* var times bg_counts squared: pk_counts * bg_var + aduph * pk_total
VarianceNumerator(g) ==
    g.pk_counts * (g.bg_counts * g.bg_tot_sq - g.bg_tot * g.bg_tot)
        + g.aduph * g.bg_counts * g.pk_total

\* The test of the variance and the two outputs
IG_Variance ==
    /\ ig.pc = "variance"
    /\ LET var == VarianceNumerator(ig)
       IN  ig' = IF var < 0
                 THEN [ig EXCEPT !.pc = "done", !.ret = 1, !.why = "var", !.var = var]
                 ELSE [ig EXCEPT !.pc = "done", !.ret = 0, !.why = "ok", !.var = var,
                                 !.intensity = Written(ig.pk_total, ig.bg_counts),
                                 !.sigma_sq = Written(var, ig.bg_counts * ig.bg_counts)]

\* ------------------------------------------------- peak search (peaks.c)

\* hc holds the locals of search_peaks_in_panel and, from cfs on, those of
\* the call of integrate_peak it makes (no saturation check, no peak mask).

Biggest(a, b) == IF a > b THEN a ELSE b

Smallest(a, b) == IF a < b THEN a ELSE b

\* distance(x1, y1, x2, y2) > r for a radius given times two
FartherThan(x1, y1, x2, y2, r2) ==
    r2 < 0 \/ 4 * ((x1 - x2) * (x1 - x2) + (y1 - y2) * (y1 - y2)) > r2 * r2

\* data[s] >= max
HigherOrEqual(v, max) == v >= max

\* data[s] > max
Higher(v, max) == v > max

\* The two for loops of one pass of the climb. Their bounds are taken from
\* mask_fs and mask_ss as they are when the bound is evaluated, so the window
\* moves along with the maximum. c holds mask_fs, mask_ss, max, did_something.
\* hc.passes counts the passes of the climb from the current seed.
\* With row set, the test of the loop over s_ss is next; otherwise that of the
\* loop over s_fs.
RECURSIVE Scan(_, _, _, _, _)
Scan(h, row, s_fs, s_ss, c) ==
    LET pn == IDetector[h.panel]
        val == DataAt(h.data, s_fs, s_ss)
    IN  IF row
        THEN IF ~(s_ss <= Smallest(ToInt(2 * c.mask_ss + h.radii[1]), pn.max_ss))
             THEN c
             ELSE Scan(h, FALSE,
                       Biggest(ToInt(2 * c.mask_fs - h.radii[1]), pn.min_fs), s_ss, c)
        ELSE IF ~(s_fs <= Smallest(ToInt(2 * c.mask_fs + h.radii[1]), pn.max_fs))
             THEN Scan(h, TRUE, s_fs, s_ss + 1, c)
             ELSE IF Higher(val, c.max)
                  THEN Scan(h, FALSE, s_fs + 1, s_ss,
                            [mask_fs |-> s_fs, mask_ss |-> s_ss, max |-> val,
                             did |-> TRUE])
                  ELSE Scan(h, FALSE, s_fs + 1, s_ss, c)

\* The seed after <<fs, ss>> in the two for loops over the panel interior
SeedAfter(h) ==
    LET pn == IDetector[h.panel]
        ss == IF h.ss + 1 <= pn.max_ss - 1 THEN h.ss + 1 ELSE pn.min_ss + 1
        fs == IF h.ss + 1 <= pn.max_ss - 1 THEN h.fs ELSE h.fs + 1
    IN  [h EXCEPT !.fs = fs, !.ss = ss,
                  !.pc = IF fs <= pn.max_fs - 1 THEN "seed" ELSE "cull"]

\* The first seed of the panel
HC_Start ==
    /\ hc.pc = "start"
    /\ LET pn == IDetector[hc.panel]
       IN  hc' = [hc EXCEPT !.fs = pn.min_fs + 1, !.ss = pn.min_ss + 1,
                            !.pc = IF pn.min_fs + 1 <= pn.max_fs - 1
                                      /\ pn.min_ss + 1 <= pn.max_ss - 1
                                   THEN "seed" ELSE "cull"]

\* The threshold, max_adu and gradient tests of a seed
HC_Seed ==
    /\ hc.pc = "seed"
    /\ LET pn == IDetector[hc.panel]
           here == DataAt(hc.data, hc.fs, hc.ss)
           dx1 == here - DataAt(hc.data, hc.fs + 1, hc.ss)
           dx2 == DataAt(hc.data, hc.fs - 1, hc.ss) - here
           dy1 == here - DataAt(hc.data, hc.fs + 1, hc.ss + 1)
           dy2 == DataAt(hc.data, hc.fs, hc.ss - 1) - here
           twice_grad == dx1 * dx1 + dx2 * dx2 + dy1 * dy1 + dy2 * dy2
       IN  hc' = IF here < hc.threshold \/ here > pn.max_adu
                    \/ twice_grad < 2 * hc.min_gradient
                 THEN SeedAfter(hc)
                 ELSE [hc EXCEPT !.pc = "climb", !.mask_fs = hc.fs,
                                 !.mask_ss = hc.ss, !.did = FALSE, !.passes = 0]

\* One pass of the do-while: the scan of the window, then the drift test
HC_Pass ==
    /\ hc.pc = "climb"
    /\ LET pn == IDetector[hc.panel]
           c == Scan(hc, TRUE, 0, Biggest(ToInt(2 * hc.mask_ss - hc.radii[1]), pn.min_ss),
                         [mask_fs |-> hc.mask_fs, mask_ss |-> hc.mask_ss,
                          max |-> DataAt(hc.data, hc.mask_fs, hc.mask_ss),
                          did |-> FALSE])
           far == FartherThan(c.mask_fs, c.mask_ss, hc.fs, hc.ss, hc.radii[1])
       IN  hc' = [hc EXCEPT !.mask_fs = c.mask_fs, !.mask_ss = c.mask_ss,
                            !.did = c.did,
                            !.passes = @ + 1,
                            !.pc = IF far \/ ~c.did THEN "climbed" ELSE "climb"]

\* The same test against the feature added last only
FeatureNearbyLast(features, fb, sb, b, r2) ==
    /\ r2 > 0
    /\ features # << >>
    /\ LET f == features[Len(features)]
           dfs == fb * f.b - f.fa * b
           dss == sb * f.b - f.sa * b
       IN  4 * (dfs * dfs + dss * dss) < r2 * r2 * b * b * f.b * f.b

\* image_feature_closest gives a distance below 2 * ir_inn; r2 is 2 * ir_inn
\* times two
FeatureNearby(features, fb, sb, b, r2) ==
    /\ r2 > 0
    /\ \E q \in DOMAIN features :
          LET f == features[q]
              dfs == fb * f.b - f.fa * b
              dss == sb * f.b - f.sa * b
          IN  4 * (dfs * dfs + dss * dss) < r2 * r2 * b * b * f.b * f.b

\* After the climb: the distance test and the four asserts, then the call of
\* integrate_peak up to its loops
HC_Climbed ==
    /\ hc.pc = "climbed"
    /\ LET pn == IDetector[hc.panel]
           p == FindPanel(IDetector, hc.mask_fs, hc.mask_ss)
       IN  hc' =
             IF FartherThan(hc.mask_fs, hc.mask_ss, hc.fs, hc.ss, hc.radii[1])
             THEN SeedAfter([hc EXCEPT !.nrej_dis = @ + 1])
             ELSE IF ~(/\ hc.mask_fs <= pn.max_fs /\ hc.mask_ss <= pn.max_ss
                       /\ hc.mask_fs >= pn.min_fs /\ hc.mask_ss >= pn.min_ss)
             THEN [hc EXCEPT !.pc = "abort"]
             ELSE IF p = 0
             THEN SeedAfter([hc EXCEPT !.nrej_bad = @ + 1])
             ELSE IF IDetector[p].no_index
             THEN SeedAfter([hc EXCEPT !.nrej_bad = @ + 1])
             ELSE [hc EXCEPT !.pc = "background", !.p = p,
                             !.cfs = hc.mask_fs, !.css = hc.mask_ss,
                             !.p_cfs = hc.mask_fs - IDetector[p].min_fs,
                             !.p_css = hc.mask_ss - IDetector[p].min_ss]

\* integrate_peak: the loop over the annulus and the test of bg_counts
HC_Background ==
    /\ hc.pc = "background"
    /\ LET a == EstimateBackground(hc, 1,
                    [veto |-> "no", saturated |-> FALSE, tot |-> 0, tot_sq |-> 0,
                     counts |-> 0])
       IN  hc' = IF a.veto # "no" \/ a.counts = 0
                 THEN SeedAfter([hc EXCEPT !.nrej_bad = @ + 1])
                 ELSE [hc EXCEPT !.pc = "peak", !.bg_tot = a.tot,
                                 !.bg_tot_sq = a.tot_sq, !.bg_counts = a.counts]

\* integrate_peak: the loop over the aperture and the test of pk_counts
HC_Peak ==
    /\ hc.pc = "peak"
    /\ LET a == MeasurePeak(hc, 1,
                    [veto |-> "no", saturated |-> FALSE, counts |-> 0, tot |-> 0,
                     fsct |-> 0, ssct |-> 0])
       IN  hc' = IF a.veto # "no" \/ a.counts = 0
                 THEN SeedAfter([hc EXCEPT !.nrej_bad = @ + 1])
                 ELSE [hc EXCEPT !.pc = "variance", !.pk_total = a.tot,
                                 !.pk_counts = a.counts,
                                 !.fsct = a.fsct, !.ssct = a.ssct]

\* integrate_peak: the test of the variance; then the tests of the centroid,
\* of the signal to noise ratio and of the nearest feature,
\* image_add_feature, and on to the next seed
HC_Accept ==
    /\ hc.pc = "variance"
    /\ LET pn == IDetector[hc.panel]
           var == VarianceNumerator(hc)
           fb == 2 * hc.fsct + hc.pk_total
           sb == 2 * hc.ssct + hc.pk_total
           b == 2 * hc.pk_total
       IN  hc' =
             IF var < 0
             THEN SeedAfter([hc EXCEPT !.nrej_bad = @ + 1])
             ELSE IF \/ QuotientLess(fb, b, pn.min_fs) \/ QuotientGreater(fb, b, pn.max_fs)
                     \/ QuotientLess(sb, b, pn.min_ss) \/ QuotientGreater(sb, b, pn.max_ss)
             THEN SeedAfter([hc EXCEPT !.nrej_fra = @ + 1])
             ELSE IF /\ var > 0
                     /\ hc.min_snr > 0
                     /\ hc.pk_total * hc.pk_total < hc.min_snr * hc.min_snr * var
             THEN SeedAfter([hc EXCEPT !.nrej_snr = @ + 1])
             ELSE IF FeatureNearby(hc.features, fb, sb, b, 2 * hc.radii[1])
             THEN SeedAfter([hc EXCEPT !.nrej_pro = @ + 1])
             ELSE SeedAfter([hc EXCEPT
                      !.features = Append(@, [fa |-> fb, sa |-> sb, b |-> b,
                                              from |-> <<hc.fs, hc.ss>>,
                                              top |-> <<hc.mask_fs, hc.mask_ss>>]),
                      !.nacc = @ + 1])

\* cull_peaks: no panel of the detector has a bad row direction, so that
\* nothing is culled
HC_Cull ==
    /\ hc.pc = "cull"
    /\ hc' = [hc EXCEPT !.pc = "returned", !.ncull = 0]

\* --------------------------------------------- peak validation (peaks.c)

\* vp holds the two feature lists, the pointer image->features (1 for the
\* list the call found, 2 for flist), the locals of validate_peaks and, from
\* cfs on, those of the call of integrate_peak it makes. A feature of the
\* old list has its position times two; one that image_get_feature returns
\* NULL for has valid unset.

MaxOld == 3

OldFeature(fs2, ss2) == [valid |-> TRUE, fs2 |-> fs2, ss2 |-> ss2]

\* Three pixels in a row, a position between pixels, a pixel of the no_index
\* panel, a pixel of no panel, a removed feature
OldFeatures ==
    { OldFeature(2, 4), OldFeature(4, 4), OldFeature(6, 4), OldFeature(5, 5),
      OldFeature(10, 4), OldFeature(18, 18),
      [valid |-> FALSE, fs2 |-> 0, ss2 |-> 0] }

OldLists == UNION { [1..n -> OldFeatures] : n \in 0..MaxOld }

ValidateData == {"stripes", "peak", "flat"}

\* ir_inn, ir_mid, ir_out of validate_peaks are ints; each times two
ValidateRadii == { <<2, 2, 2>>, <<0, 2, 2>> }

\* On to the next feature of the old list, or out of the loop
NextFeature(v) ==
    [v EXCEPT !.i = v.i + 1,
              !.pc = IF v.i + 1 < v.n THEN "feature" ELSE "replace"]

\* image_feature_list_new, which may return NULL, and image_feature_count
VP_New ==
    /\ vp.pc = "new"
    /\ \/ vp' = [vp EXCEPT !.pc = "returned"]
       \/ vp' = [vp EXCEPT !.alloc = TRUE, !.n = Len(vp.old),
                           !.pc = IF Len(vp.old) > 0 THEN "feature" ELSE "replace"]

\* image_get_feature and find_panel, then the call of integrate_peak up to
\* its loops
VP_Feature ==
    /\ vp.pc = "feature"
    /\ LET f == vp.old[vp.i + 1]
           cfs == ToInt(f.fs2)
           css == ToInt(f.ss2)
           p == FindPanel(IDetector, cfs, css)
       IN  vp' =
             IF ~f.valid THEN NextFeature([vp EXCEPT !.n_wtf = @ + 1])
             ELSE IF p = 0 THEN NextFeature([vp EXCEPT !.n_wtf = @ + 1])
             ELSE IF IDetector[p].no_index
             THEN NextFeature([vp EXCEPT !.n_int = @ + 1])
             ELSE [vp EXCEPT !.pc = "background", !.p = p, !.cfs = cfs, !.css = css,
                             !.p_cfs = cfs - IDetector[p].min_fs,
                             !.p_css = css - IDetector[p].min_ss]

\* integrate_peak: the loop over the annulus and the test of bg_counts
VP_Background ==
    /\ vp.pc = "background"
    /\ LET a == EstimateBackground(vp, 1,
                    [veto |-> "no", saturated |-> FALSE, tot |-> 0, tot_sq |-> 0,
                     counts |-> 0])
       IN  vp' = IF a.veto # "no" \/ a.counts = 0
                 THEN NextFeature([vp EXCEPT !.n_int = @ + 1])
                 ELSE [vp EXCEPT !.pc = "peak", !.bg_tot = a.tot,
                                 !.bg_tot_sq = a.tot_sq, !.bg_counts = a.counts]

\* integrate_peak: the loop over the aperture and the test of pk_counts
VP_Peak ==
    /\ vp.pc = "peak"
    /\ LET a == MeasurePeak(vp, 1,
                    [veto |-> "no", saturated |-> FALSE, counts |-> 0, tot |-> 0,
                     fsct |-> 0, ssct |-> 0])
       IN  vp' = IF a.veto # "no" \/ a.counts = 0
                 THEN NextFeature([vp EXCEPT !.n_int = @ + 1])
                 ELSE [vp EXCEPT !.pc = "variance", !.pk_total = a.tot,
                                 !.pk_counts = a.counts,
                                 !.fsct = a.fsct, !.ssct = a.ssct]

\* integrate_peak: the test of the variance; then the tests of the centroid,
\* of the signal to noise ratio and of the nearest feature of flist, and
\* image_add_feature
VP_Accept ==
    /\ vp.pc = "variance"
    /\ LET pn == IDetector[vp.p]
           var == VarianceNumerator(vp)
           fb == 2 * vp.fsct + vp.pk_total
           sb == 2 * vp.ssct + vp.pk_total
           b == 2 * vp.pk_total
       IN  vp' =
             IF var < 0
             THEN NextFeature([vp EXCEPT !.n_int = @ + 1])
             ELSE IF \/ QuotientLess(fb, b, pn.min_fs) \/ QuotientGreater(fb, b, pn.max_fs)
                     \/ QuotientLess(sb, b, pn.min_ss) \/ QuotientGreater(sb, b, pn.max_ss)
             THEN NextFeature([vp EXCEPT !.n_dft = @ + 1])
             ELSE IF /\ var > 0
                     /\ vp.min_snr > 0
                     /\ vp.pk_total * vp.pk_total < vp.min_snr * vp.min_snr * var
             THEN NextFeature([vp EXCEPT !.n_snr = @ + 1])
             ELSE IF FeatureNearby(vp.flist, fb, sb, b, 2 * vp.radii[1])
             THEN NextFeature([vp EXCEPT !.n_prx = @ + 1])
             ELSE NextFeature([vp EXCEPT
                      !.flist = Append(@, [fa |-> fb, sa |-> sb, b |-> b,
                                           from |-> vp.i])])

\* image->features = flist without the call of image_feature_list_free
VP_ReplaceKeepOld ==
    /\ vp.pc = "replace"
    /\ vp' = [vp EXCEPT !.features = 2, !.pc = "returned"]

\* image_feature_list_free(image->features); image->features = flist
VP_Replace ==
    /\ vp.pc = "replace"
    /\ vp' = [vp EXCEPT !.frees[vp.features] = @ + 1, !.features = 2,
                        !.pc = "returned"]

\* ------------------------------------------- culling of peaks (peaks.c)

\* cu holds image->features (a removed feature has valid unset and is what
\* image_get_feature returns NULL for), the panels of the detector, the
\* locals of cull_peaks (ip, nelim) and of cull_peaks_in_panel (i, n, pnelim).

MaxPeaks == 6

CPanel(min_fs, max_fs, min_ss, max_ss, badrow) ==
    [min_fs |-> min_fs, max_fs |-> max_fs, min_ss |-> min_ss, max_ss |-> max_ss,
     badrow |-> badrow]

\* Two panels side by side; the first has any direction, the second none or 'f'
CullDetectors ==
    { << CPanel(0, 7, 0, 15, b1), CPanel(8, 15, 0, 15, b2) >> :
         b1 \in {"f", "s", "-"}, b2 \in {"-", "f"} }

\* Positions <<fs, ss>> in the order of the scan: a row at ss of 3 or 4 that
\* runs on into the second panel, a column at fs of 0 or 1, and a peak whose
\* ss is the fs of the column
PeakPositions ==
    << <<0, 3>>, <<0, 12>>, <<1, 8>>, <<1, 14>>, <<2, 4>>, <<4, 3>>, <<5, 1>>,
       <<6, 4>>, <<9, 3>> >>

PeakLists ==
    { SelectSeq(PeakPositions, LAMBDA x : x \in S) :
         S \in { T \in SUBSET { PeakPositions[q] : q \in DOMAIN PeakPositions } :
                    Cardinality(T) <= MaxPeaks } }

\* fabs(a - b) < 2.0
Within2(a, b) == a - b < 2 /\ b - a < 2

\* The test of the loop that counts, for the peak f and another peak g
InLine(badrow, f, g) ==
    CASE badrow = "f" -> Within2(f.ss, g.ss)
      [] badrow = "s" -> Within2(f.fs, g.fs)
      [] OTHER -> FALSE

\* The test of the loop that deletes
Doomed(badrow, f, g) ==
    CASE badrow = "f" -> Within2(f.ss, g.ss)
      [] badrow = "s" -> Within2(f.fs, g.ss)
      [] OTHER -> FALSE

\* cull_peaks: the next panel; cull_peaks_in_panel is entered for a panel
\* whose badrow is not '-'
CU_Panel ==
    /\ cu.pc = "panel"
    /\ cu' = IF cu.ip >= Len(cu.det)
             THEN [cu EXCEPT !.pc = "returned", !.ret = cu.nelim]
             ELSE IF cu.det[cu.ip + 1].badrow = "-"
             THEN [cu EXCEPT !.ip = @ + 1]
             ELSE IF Len(cu.features) = 0
             THEN [cu EXCEPT !.ip = @ + 1, !.n = 0]
             ELSE [cu EXCEPT !.pc = "feature", !.i = 0, !.n = Len(cu.features),
                             !.pnelim = 0]

\* cull_peaks_in_panel: one pass of the loop over i; after the last pass the
\* return to cull_peaks, which adds the count to its own
CU_Feature ==
    /\ cu.pc = "feature"
    /\ LET pn == cu.det[cu.ip + 1]
           f == cu.features[cu.i + 1]
           ncol == Cardinality({ j \in DOMAIN cu.features :
                                    /\ j # cu.i + 1
                                    /\ cu.features[j].valid
                                    /\ InLine(pn.badrow, f, cu.features[j]) })
           gone == { j \in DOMAIN cu.features :
                        /\ cu.features[j].valid
                        /\ Doomed(pn.badrow, f, cu.features[j]) }
           skip == \/ ~f.valid
                   \/ f.fs < pn.min_fs \/ f.fs > pn.max_fs
                   \/ f.ss < pn.min_ss \/ f.ss > pn.max_ss
                   \/ ncol <= 3
           after == IF skip THEN cu
                    ELSE [cu EXCEPT !.features =
                                       [j \in DOMAIN cu.features |->
                                           IF j \in gone
                                           THEN [cu.features[j] EXCEPT !.valid = FALSE]
                                           ELSE cu.features[j]],
                                    !.pnelim = @ + Cardinality(gone)]
       IN  cu' = IF ~skip /\ pn.badrow \notin {"f", "s"}
                 THEN [cu EXCEPT !.pc = "abort"]
                 ELSE IF cu.i + 1 < cu.n
                 THEN [after EXCEPT !.i = @ + 1]
                 ELSE [after EXCEPT !.i = @ + 1, !.pc = "panel", !.ip = @ + 1,
                                    !.nelim = @ + after.pnelim]

\* ------------------- refine_radius on long pair arrays (predict-refine.c)

\* rr holds a call of refine_radius in which pair_peaks is taken by its
\* result alone: the number of pairs it returned and the |excitation error|
\* of each pair as update_predictions leaves it. The profile radius at entry
\* is a value that no pair has.

MaxAcc == 105

\* |r_dev| of the pair at position k (from 0) of an array of n pairs: in
\* rising order, in falling order, and in no order with values that recur
ErrorFamilies == {"rising", "falling", "mixed"}

FamilyErrorAt(family, n, k) ==
    CASE family = "rising" -> k + 1
      [] family = "falling" -> n - k
      [] family = "mixed" -> (k * 37) % 41

\* The value at position idx (from 0) once qsort has put the n values in
\* ascending order
SortedAt(family, n, idx) ==
    LET vals == { FamilyErrorAt(family, n, k) : k \in 0..(n - 1) }
    IN  CHOOSE v \in vals :
            /\ Cardinality({ k \in 0..(n - 1) : FamilyErrorAt(family, n, k) < v }) <= idx
            /\ Cardinality({ k \in 0..(n - 1) : FamilyErrorAt(family, n, k) <= v }) > idx

\* rps = malloc(...), which may fail, reflist_new and pair_peaks
RD_Pair ==
    /\ rr.pc = "start"
    /\ \/ rr' = [rr EXCEPT !.pc = "done", !.ret = 1]
       \/ rr' = [rr EXCEPT !.pc = "paired"]

\* The test of n_acc, and for 3 pairs or more the sort, the index and
\* crystal_set_profile_radius
RD_Estimate ==
    /\ rr.pc = "paired"
    /\ rr' = IF rr.n_acc < MinPairsRadius
             THEN [rr EXCEPT !.pc = "done", !.ret = 1]
             ELSE [rr EXCEPT !.pc = "done", !.ret = 0,
                             !.n = RadiusIndex(rr.n_acc),
                             !.radius = SortedAt(rr.family, rr.n_acc,
                                                 RadiusIndex(rr.n_acc))]

\* ------------------ one run_threads of scale_all in steps (part_004)

\* tp holds struct queue_args, the counters and the lock of the pool, the
\* workers, and for each crystal the count that do_scale_refine leaves in
\* task->n_reflections. A callback runs with the lock of the pool held;
\* x++ and x += y are a load into tmp followed by a store.

MaxTasks == 3

MaxWorkers == 2

TaskCounts == {0, 2, 5}

IdleThread == [pc |-> "idle", crystal |-> 0, n_reflections |-> 0, tmp |-> 0]

\* A worker takes the lock to ask for a task, or leaves when every task has
\* been started
T_Take(w) ==
    /\ tp.pc = "run"
    /\ tp.wk[w].pc = "idle"
    /\ tp.lock = 0
    /\ tp' = IF tp.pool.n_started < tp.pool.max
             THEN [tp EXCEPT !.lock = w, !.wk[w].pc = "get"]
             ELSE [tp EXCEPT !.wk[w].pc = "exited"]

\* get_crystal: the copy of task_defaults and
\* task->crystal = qargs->crystals[qargs->n_started]
T_GetCrystal(w) ==
    /\ tp.wk[w].pc = "get"
    /\ tp' = [tp EXCEPT !.wk[w] = [pc |-> "started", crystal |-> tp.qa.n_started + 1,
                                   n_reflections |-> 0, tmp |-> tp.qa.n_started]]

\* get_crystal: qargs->n_started++; the pool counts the task and lets go of
\* the lock
T_GetStarted(w) ==
    /\ tp.wk[w].pc = "started"
    /\ tp' = [tp EXCEPT !.qa.n_started = tp.wk[w].tmp + 1,
                        !.pool.n_started = @ + 1,
                        !.lock = 0,
                        !.wk[w].pc = "work"]

\* scale_crystal: do_scale_refine leaves its count in the task
T_ScaleCrystal(w) ==
    /\ tp.wk[w].pc = "work"
    /\ tp' = IF tp.wk[w].crystal \in DOMAIN tp.nr
             THEN [tp EXCEPT !.wk[w].n_reflections = tp.nr[tp.wk[w].crystal],
                             !.wk[w].pc = "finished"]
             ELSE [tp EXCEPT !.wk[w].pc = "wild"]

\* The worker takes the lock for the completion callback
T_Finish(w) ==
    /\ tp.wk[w].pc = "finished"
    /\ tp.lock = 0
    /\ tp' = [tp EXCEPT !.lock = w, !.wk[w].pc = "done"]

\* done_crystal: qa->n_done++, the load
T_DoneLoad(w) ==
    /\ tp.wk[w].pc = "done"
    /\ tp' = [tp EXCEPT !.wk[w].tmp = tp.qa.n_done, !.wk[w].pc = "counted"]

\* done_crystal: qa->n_done++, the store; then the load of qa->n_reflections
T_DoneStore(w) ==
    /\ tp.wk[w].pc = "counted"
    /\ tp' = [tp EXCEPT !.qa.n_done = tp.wk[w].tmp + 1,
                        !.wk[w].tmp = tp.qa.n_reflections,
                        !.wk[w].pc = "adding"]

\* The store of the task's count alone
T_ReflectionsStoreTask(w) ==
    /\ tp.wk[w].pc = "adding"
    /\ tp' = [tp EXCEPT !.qa.n_reflections = tp.wk[w].n_reflections,
                        !.dones[tp.wk[w].crystal] = @ + 1,
                        !.pool.n_completed = @ + 1,
                        !.lock = 0,
                        !.wk[w] = IdleThread]

\* done_crystal: qa->n_reflections += wargs->n_reflections, the store, and
\* free(task); the pool counts the completion and lets go of the lock
T_ReflectionsStore(w) ==
    /\ tp.wk[w].pc = "adding"
    /\ tp' = [tp EXCEPT !.qa.n_reflections = tp.wk[w].tmp + tp.wk[w].n_reflections,
                        !.dones[tp.wk[w].crystal] = @ + 1,
                        !.pool.n_completed = @ + 1,
                        !.lock = 0,
                        !.wk[w] = IdleThread]

\* run_threads returns once every worker has left
T_Join ==
    /\ tp.pc = "run"
    /\ \A w \in DOMAIN tp.wk : tp.wk[w].pc = "exited"
    /\ tp' = [tp EXCEPT !.pc = "joined"]

\* ------------------------------- integration of reflections (peaks.c)

\* irf holds the sorted list il of integrate_reflections as the positions
\* get_detector_pos gives, its arguments, the locals of one pass of its loop
\* (r, saturated) beside the locals of the integrate_peak call, the counter
\* image->n_saturated and the redundancy of each reflection (-1: not set).
\* garbage is the value the uninitialised local saturated has when the pass
\* begins; wrote is set when integrate_peak stores 1 through its pointer.

MaxRefl == 2

ReflectionLists ==
    UNION { [1..n -> Centres] : n \in 0..MaxRefl }

IntegrateData == {"flat", "peak", "stripes"}

IntegrateRadii == { <<2, 2, 2>>, <<2, 2, 4>> }

\* intensity/sigma < min_snr for min_snr >= 0, with intensity pk_total /
\* bg_counts and sigma sqrt(var) / bg_counts: a quotient by zero is an
\* infinity of the sign of the intensity, or NaN, which is below nothing
SnrBelow(pk_total, var, min_snr) ==
    IF var = 0 THEN pk_total < 0
    ELSE IF pk_total < 0 THEN TRUE
    ELSE pk_total * pk_total < min_snr * min_snr * var

\* On to the next reflection, or out of the loop
NextReflection(v) ==
    [v EXCEPT !.i = v.i + 1,
              !.pc = IF v.i + 1 < v.n THEN "locate" ELSE "returned"]

\* sort_reflections, NULL for an empty list, and the background masks, whose
\* allocation may fail
IR_Sort ==
    /\ irf.pc = "sort"
    /\ \/ irf' = [irf EXCEPT !.pc = "returned"]
       \/ /\ Len(irf.il) > 0
          /\ irf' = [irf EXCEPT !.n = Len(irf.il), !.pc = "locate"]

\* The position of reflection i (that of the closest feature when use_closer
\* found one within 10 pixels), find_panel, and integrate_peak up to its
\* loops; saturated starts the pass with whatever value its storage holds
IR_Locate ==
    /\ irf.pc = "locate"
    /\ \E garbage \in BOOLEAN :
       LET pos == IF irf.closest = <<>> THEN irf.il[irf.i + 1] ELSE irf.closest
           p == FindPanel(IDetector, pos[1], pos[2])
           v == [irf EXCEPT !.garbage = garbage, !.wrote = FALSE, !.ret = -1,
                            !.cfs = pos[1], !.css = pos[2], !.p = p]
       IN  irf' =
             IF p = 0 THEN NextReflection(irf)
             ELSE IF IDetector[p].no_index
             THEN [v EXCEPT !.pc = "record", !.ret = 1]
             ELSE [v EXCEPT !.pc = "background",
                            !.p_cfs = pos[1] - IDetector[p].min_fs,
                            !.p_css = pos[2] - IDetector[p].min_ss]

\* integrate_peak: the loop over the annulus and the test of bg_counts
IR_Background ==
    /\ irf.pc = "background"
    /\ LET a == EstimateBackground(irf, 1,
                    [veto |-> "no", saturated |-> FALSE, tot |-> 0, tot_sq |-> 0,
                     counts |-> 0])
           sat == [irf EXCEPT !.wrote = @ \/ a.saturated]
       IN  irf' = IF a.veto # "no" \/ a.counts = 0
                  THEN [sat EXCEPT !.pc = "record", !.ret = 1]
                  ELSE [sat EXCEPT !.pc = "peak", !.bg_tot = a.tot,
                                   !.bg_tot_sq = a.tot_sq, !.bg_counts = a.counts]

\* integrate_peak: the loop over the aperture and the test of pk_counts
IR_Peak ==
    /\ irf.pc = "peak"
    /\ LET a == MeasurePeak(irf, 1,
                    [veto |-> "no", saturated |-> FALSE, counts |-> 0, tot |-> 0,
                     fsct |-> 0, ssct |-> 0])
           sat == [irf EXCEPT !.wrote = @ \/ a.saturated]
       IN  irf' = IF a.veto # "no" \/ a.counts = 0
                  THEN [sat EXCEPT !.pc = "record", !.ret = 1]
                  ELSE [sat EXCEPT !.pc = "variance", !.pk_total = a.tot,
                                   !.pk_counts = a.counts]

\* integrate_peak: the test of the variance and the return value
IR_Variance ==
    /\ irf.pc = "variance"
    /\ LET var == VarianceNumerator(irf)
       IN  irf' = [irf EXCEPT !.pc = "record", !.var = var,
                              !.ret = IF var < 0 THEN 1 ELSE 0]

\* The value of the local saturated after the call: integrate_peak only ever
\* stores 1 in it
SaturatedAfter(v) == v.garbage \/ v.wrote

\* r after the tests of saturation and of intensity/sigma
AfterTests(v, saturated) ==
    IF v.ret # 0 THEN v.ret
    ELSE IF saturated /\ ~v.integrate_saturated THEN 1
    ELSE IF SnrBelow(v.pk_total, v.var, v.min_snr) THEN 1
    ELSE 0

\* if ( saturated ) n_saturated++ ...; the cutoff; set_redundancy
IR_Record ==
    /\ irf.pc = "record"
    /\ LET saturated == SaturatedAfter(irf)
           r == AfterTests(irf, saturated)
       IN  irf' = NextReflection(
                    [irf EXCEPT !.n_saturated = @ + (IF saturated THEN 1 ELSE 0),
                                !.counted[irf.i + 1] = saturated,
                                !.found[irf.i + 1] = irf.wrote,
                                !.vetoed[irf.i + 1] = irf.ret # 0,
                                !.below[irf.i + 1] =
                                    irf.ret = 0 /\ ~(irf.pk_total >= 0 /\ irf.var > 0
                                        /\ irf.pk_total * irf.pk_total
                                             >= irf.min_snr * irf.min_snr * irf.var),
                                !.redundancy[irf.i + 1] = IF r = 0 THEN 1 ELSE 0])

\* ------------------- local backend of the GUI (gui_backend_local.c)

\* gui holds the private data of the local backend (indexamajig_running,
\* indexamajig_pid), the child processes that live and those that have exited
\* and wait for their child watch to be dispatched, the watches on the error
\* output, and counts of what the handlers did. Every handler runs to its end
\* in the main loop; children are numbered in the order they are spawned.

MaxJobs == 3

MaxCalls == 4

\* init_backend: malloc may fail, and then there is no backend to call
GB_Init ==
    /\ gui.pc = "init"
    /\ \/ gui' = [gui EXCEPT !.pc = "failed"]
       \/ gui' = [gui EXCEPT !.pc = "ready", !.running = 0]

\* Variant: run_unitcell without the test of indexamajig_running
GB_RunUnitcellUntested ==
    /\ gui.pc = "ready"
    /\ gui.calls < MaxCalls
    /\ \E listed \in BOOLEAN, spawnable \in BOOLEAN :
          gui' = IF ~listed
                 THEN [gui EXCEPT !.calls = @ + 1, !.ret = 1, !.why = "list"]
                 ELSE IF ~spawnable \/ gui.spawned = MaxJobs
                 THEN [gui EXCEPT !.calls = @ + 1, !.ret = 1, !.why = "spawn"]
                 ELSE [gui EXCEPT !.calls = @ + 1, !.ret = 0, !.why = "started",
                                  !.spawned = @ + 1,
                                  !.pid = gui.spawned + 1,
                                  !.live = @ \cup {gui.spawned + 1},
                                  !.watched = @ \cup {gui.spawned + 1},
                                  !.io = @ + 1,
                                  !.running = 1]

\* run_unitcell: the test of the flag, write_file_list, the spawn, and on
\* success the flag, the child watch and the watch on the child's stderr
GB_RunUnitcell ==
    /\ gui.pc = "ready"
    /\ gui.calls < MaxCalls
    /\ \E listed \in BOOLEAN, spawnable \in BOOLEAN :
          gui' = IF gui.running # 0
                 THEN [gui EXCEPT !.calls = @ + 1, !.ret = 1, !.why = "running"]
                 ELSE IF ~listed
                 THEN [gui EXCEPT !.calls = @ + 1, !.ret = 1, !.why = "list"]
                 ELSE IF ~spawnable \/ gui.spawned = MaxJobs
                 THEN [gui EXCEPT !.calls = @ + 1, !.ret = 1, !.why = "spawn"]
                 ELSE [gui EXCEPT !.calls = @ + 1, !.ret = 0, !.why = "started",
                                  !.spawned = @ + 1,
                                  !.pid = gui.spawned + 1,
                                  !.live = @ \cup {gui.spawned + 1},
                                  !.watched = @ \cup {gui.spawned + 1},
                                  !.io = @ + 1,
                                  !.running = 1]

\* A child ends, by itself or after a signal
GB_ChildExits ==
    /\ gui.pc \in {"ready", "down"}
    /\ \E k \in gui.live :
          gui' = [gui EXCEPT !.live = @ \ {k}, !.exited = @ \cup {k}]

\* watch_indexamajig, dispatched for a child that has exited
GB_Watch ==
    /\ gui.pc = "ready"
    /\ \E k \in gui.exited \cap gui.watched :
          gui' = [gui EXCEPT !.running = 0,
                             !.exited = @ \ {k},
                             !.watched = @ \ {k},
                             !.closed = @ \cup {k}]

\* index_readable: a line of the child's output, or the end of it, which
\* removes the watch
GB_Readable ==
    /\ gui.pc = "ready"
    /\ gui.io > 0
    /\ \/ /\ gui.lines < MaxCalls
          /\ gui' = [gui EXCEPT !.lines = @ + 1]
       \/ gui' = [gui EXCEPT !.io = @ - 1]

\* cancel: nothing without a running child, else SIGQUIT to indexamajig_pid
GB_Cancel ==
    /\ gui.pc = "ready"
    /\ gui.cancels < MaxCalls
    /\ gui' = IF gui.running = 0
              THEN [gui EXCEPT !.cancels = @ + 1]
              ELSE [gui EXCEPT !.cancels = @ + 1, !.signals = @ + 1,
                               !.signalled = @ \cup {gui.pid}]

\* shutdown_backend: the private data are freed, a child is left to itself
GB_Shutdown ==
    /\ gui.pc = "ready"
    /\ gui' = [gui EXCEPT !.pc = "down"]

\* ----------------------- detector geometry file parser (detector.c)

\* geo holds the lines of the geometry file, the position of the parser in
\* it, det->n_panels, the panels array as the allocation made for it (size
\* panels, one field per panel), the panel numbers written inside and outside
\* that allocation, and what get_detector_geometry returned. Of the per-panel
\* fields only min_x is kept; rest_ok stands for the other required fields
\* and the test for gaps at the end of the function.

MaxLines == 3

\* A line with fewer than three words, without '=', or with a top-level
\* option other than n_panels
SkippedLine == [k |-> "skip", v |-> 0, field |-> "none"]

\* "n_panels = v"
CountLine(v) == [k |-> "n_panels", v |-> v, field |-> "none"]

\* "np/field = ...", with atoi(path[0]) = np
PanelLine(np, field) == [k |-> "panel", v |-> np, field |-> field]

GeometryLines ==
    {SkippedLine}
        \cup {CountLine(v) : v \in 0..2}
        \cup {PanelLine(np, field) : np \in -1..2, field \in {"min_x", "junk"}}

GeometryFiles == UNION { [1..n -> GeometryLines] : n \in 0..MaxLines }

\* if ( np > det->n_panels ) return NULL
PanelRefused(np, n_panels) == np > n_panels

\* fopen and the allocation of det, each of which may fail
GD_Open ==
    /\ geo.pc = "open"
    /\ \/ geo' = [geo EXCEPT !.pc = "returned", !.ret = "NULL", !.why = "open"]
       \/ geo' = [geo EXCEPT !.pc = "lines", !.n_panels = -1]

\* One pass of the loop over the lines for a line that fgets delivers. A
\* store outside the allocation is undefined: the call may end there or go on
GD_Line ==
    /\ geo.pc = "lines"
    /\ geo.pos < Len(geo.file)
    /\ LET line == geo.file[geo.pos + 1]
           on == [geo EXCEPT !.pos = @ + 1]
       IN  IF line.k = "skip" THEN geo' = on
           ELSE IF line.k = "n_panels"
           THEN geo' = IF geo.n_panels # -1
                       THEN [on EXCEPT !.pc = "returned", !.ret = "NULL",
                                       !.why = "duplicate"]
                       ELSE [on EXCEPT !.n_panels = line.v, !.size = line.v,
                                       !.panels = [q \in 0..(line.v - 1) |-> -1]]
           ELSE IF geo.n_panels = -1
           THEN geo' = [on EXCEPT !.pc = "returned", !.ret = "NULL", !.why = "first"]
           ELSE IF PanelRefused(line.v, geo.n_panels)
           THEN geo' = [on EXCEPT !.pc = "returned", !.ret = "NULL", !.why = "number"]
           ELSE IF line.field # "min_x" THEN geo' = on
           ELSE IF line.v \in DOMAIN geo.panels
           THEN geo' = [on EXCEPT !.panels[line.v] = 0,
                                  !.written = @ \cup {line.v}]
           ELSE \/ geo' = [on EXCEPT !.outside = @ \cup {line.v}]
                \/ geo' = [on EXCEPT !.outside = @ \cup {line.v},
                                     !.pc = "crashed"]

\* The end of the file: the test of n_panels, of the fields of every panel
\* and for gaps, and the return
GD_End ==
    /\ geo.pc = "lines"
    /\ geo.pos = Len(geo.file)
    /\ geo' = IF geo.n_panels = -1
              THEN [geo EXCEPT !.pc = "returned", !.ret = "NULL", !.why = "none"]
              ELSE IF (\E q \in DOMAIN geo.panels : geo.panels[q] = -1) \/ ~geo.rest_ok
              THEN [geo EXCEPT !.pc = "returned", !.ret = "NULL", !.why = "reject"]
              ELSE [geo EXCEPT !.pc = "returned", !.ret = "det", !.why = "ok"]

\* ----------------------------------------------------------- specifications

\* The parts of the state a specification does not exercise
IdleRefine ==
    /\ caller = "none"
    /\ img = [features |-> <<>>, lowest |-> <<0, 0>>]
    /\ cr = [cell |-> <<>>, shift |-> <<0, 0>>, refls |-> "NULL", radius |-> 0]
    /\ entry = cr
    /\ rp = NoRP
    /\ pp = NoPP
    /\ rps = <<>>
    /\ it = NoIt
    /\ heap = NoHeap
    /\ ret = -1

IdleScale ==
    /\ xt = <<>>
    /\ xt0 = <<>>
    /\ sa = [entry |-> "none", pc |-> "idle"]
    /\ full = [id |-> 0, live |-> FALSE, refl |-> <<>>]
    /\ qa = NoQueue
    /\ pool = NoPool
    /\ wk = <<>>
    /\ handed = <<>>

IdleLinear ==
    /\ lx = <<>>
    /\ lx0 = <<>>
    /\ lref = <<>>
    /\ sr = [pc |-> "idle", i |-> 0, rets |-> <<>>]
    /\ ls = NoLS

IdleGrad == gt = [pc |-> "idle"]

IdleGeom == fi = [pc |-> "idle"]

IdleInteg == ig = [pc |-> "idle"]

IdleSearch == hc = [pc |-> "idle"]

IdleValidate == vp = [pc |-> "idle"]

IdleCull == cu = [pc |-> "idle"]

IdleRadius == rr = [pc |-> "idle"]

IdleReflections == irf = [pc |-> "idle"]

IdleBackend == gui = [pc |-> "idle"]

IdleGeometry == geo = [pc |-> "idle"]

IdlePass == tp = [pc |-> "idle"]

IdleLate ==
    /\ IdleValidate /\ IdleCull /\ IdleRadius
    /\ IdleReflections /\ IdleBackend /\ IdleGeometry /\ IdlePass

IdleChecks == IdleGrad /\ IdleGeom /\ IdleInteg /\ IdleSearch /\ IdleLate

\* refine_prediction on the images made for it
InitRefine == InitCall("refine_prediction", RefineImages) /\ IdleScale /\ IdleLinear /\ IdleChecks

NextRefine ==
    \/ RP_Start /\ UNCHANGED <<varsScale, varsLinear, gt, fi, ig, hc, varsLate>>
    \/ RP_Paired /\ UNCHANGED <<varsScale, varsLinear, gt, fi, ig, hc, varsLate>>
    \/ RP_Normalise /\ UNCHANGED <<varsScale, varsLinear, gt, fi, ig, hc, varsLate>>
    \/ RP_Cycle /\ UNCHANGED <<varsScale, varsLinear, gt, fi, ig, hc, varsLate>>
    \/ RP_Iterated /\ UNCHANGED <<varsScale, varsLinear, gt, fi, ig, hc, varsLate>>
    \/ RP_Repair /\ UNCHANGED <<varsScale, varsLinear, gt, fi, ig, hc, varsLate>>
    \/ RP_Finish /\ UNCHANGED <<varsScale, varsLinear, gt, fi, ig, hc, varsLate>>
    \/ IT_Solve /\ UNCHANGED <<varsScale, varsLinear, gt, fi, ig, hc, varsLate>>
    \/ IT_Clamp /\ UNCHANGED <<varsScale, varsLinear, gt, fi, ig, hc, varsLate>>
    \/ IT_Apply /\ UNCHANGED <<varsScale, varsLinear, gt, fi, ig, hc, varsLate>>
    \/ PP_Candidate /\ UNCHANGED <<varsScale, varsLinear, gt, fi, ig, hc, varsLate>>
    \/ PP_Predict /\ UNCHANGED <<varsScale, varsLinear, gt, fi, ig, hc, varsLate>>
    \/ PP_Accept /\ UNCHANGED <<varsScale, varsLinear, gt, fi, ig, hc, varsLate>>
    \/ PP_FreeAll /\ UNCHANGED <<varsScale, varsLinear, gt, fi, ig, hc, varsLate>>
    \/ PP_Outlier /\ UNCHANGED <<varsScale, varsLinear, gt, fi, ig, hc, varsLate>>
    \/ PP_AddToList /\ UNCHANGED <<varsScale, varsLinear, gt, fi, ig, hc, varsLate>>
    \/ PP_FreeOutliers /\ UNCHANGED <<varsScale, varsLinear, gt, fi, ig, hc, varsLate>>

SpecRefine == InitRefine /\ [][NextRefine]_vars

\* refine_radius (and so pair_peaks) on every image of up to MaxFeat features
InitPair == InitCall("refine_radius", PairImages) /\ IdleScale /\ IdleLinear /\ IdleChecks

NextPair ==
    \/ RR_Start /\ UNCHANGED <<varsScale, varsLinear, gt, fi, ig, hc, varsLate>>
    \/ RR_Estimate /\ UNCHANGED <<varsScale, varsLinear, gt, fi, ig, hc, varsLate>>
    \/ PP_Candidate /\ UNCHANGED <<varsScale, varsLinear, gt, fi, ig, hc, varsLate>>
    \/ PP_Predict /\ UNCHANGED <<varsScale, varsLinear, gt, fi, ig, hc, varsLate>>
    \/ PP_Accept /\ UNCHANGED <<varsScale, varsLinear, gt, fi, ig, hc, varsLate>>
    \/ PP_FreeAll /\ UNCHANGED <<varsScale, varsLinear, gt, fi, ig, hc, varsLate>>
    \/ PP_Outlier /\ UNCHANGED <<varsScale, varsLinear, gt, fi, ig, hc, varsLate>>
    \/ PP_AddToList /\ UNCHANGED <<varsScale, varsLinear, gt, fi, ig, hc, varsLate>>
    \/ PP_FreeOutliers /\ UNCHANGED <<varsScale, varsLinear, gt, fi, ig, hc, varsLate>>

SpecPair == InitPair /\ [][NextPair]_vars

\* scale_all, or refine_all, on up to MaxCrystals crystals with up to
\* MaxThreads threads asked for
InitScale ==
    /\ \E n \in 1..MaxCrystals : xt \in [1..n -> {Xtal(l) : l \in ReflLists}]
    /\ xt0 = xt
    /\ \E e \in {"scale_all", "refine_all"}, t \in 1..MaxThreads :
          sa = [entry |-> e, pc |-> "start", niter |-> 0, nthreads |-> t,
                old_res |-> Infinite, new_res |-> Infinite, bef_res |-> 0,
                gave_up |-> FALSE]
    /\ full = IF sa.entry = "refine_all"
              THEN [id |-> 1, live |-> TRUE, refl |-> MergeIntensities(xt)]
              ELSE [id |-> 0, live |-> FALSE, refl |-> <<>>]
    /\ qa = NoQueue
    /\ pool = NoPool
    /\ wk = <<>>
    /\ handed = <<>>
    /\ IdleRefine /\ IdleLinear /\ IdleChecks

NextScale ==
    \/ SA_Start /\ UNCHANGED <<varsRefine, varsLinear, gt, fi, ig, hc, varsLate>>
    \/ SA_Merge /\ UNCHANGED <<varsRefine, varsLinear, gt, fi, ig, hc, varsLate>>
    \/ SA_RunThreads /\ UNCHANGED <<varsRefine, varsLinear, gt, fi, ig, hc, varsLate>>
    \/ SA_Joined /\ UNCHANGED <<varsRefine, varsLinear, gt, fi, ig, hc, varsLate>>
    \/ SA_Free /\ UNCHANGED <<varsRefine, varsLinear, gt, fi, ig, hc, varsLate>>
    \/ SA_Test /\ UNCHANGED <<varsRefine, varsLinear, gt, fi, ig, hc, varsLate>>
    \/ RA_Start /\ UNCHANGED <<varsRefine, varsLinear, gt, fi, ig, hc, varsLate>>
    \/ RA_Joined /\ UNCHANGED <<varsRefine, varsLinear, gt, fi, ig, hc, varsLate>>
    \/ (\E w \in DOMAIN wk : W_Get(w)) /\ UNCHANGED <<varsRefine, varsLinear, gt, fi, ig, hc, varsLate>>
    \/ (\E w \in DOMAIN wk : W_Exit(w)) /\ UNCHANGED <<varsRefine, varsLinear, gt, fi, ig, hc, varsLate>>
    \/ (\E w \in DOMAIN wk : W_Begin(w)) /\ UNCHANGED <<varsRefine, varsLinear, gt, fi, ig, hc, varsLate>>
    \/ (\E w \in DOMAIN wk : W_Cycle(w)) /\ UNCHANGED <<varsRefine, varsLinear, gt, fi, ig, hc, varsLate>>
    \/ (\E w \in DOMAIN wk : W_Refine(w)) /\ UNCHANGED <<varsRefine, varsLinear, gt, fi, ig, hc, varsLate>>
    \/ (\E w \in DOMAIN wk : W_Done(w)) /\ UNCHANGED <<varsRefine, varsLinear, gt, fi, ig, hc, varsLate>>

SpecScale == InitScale /\ [][NextScale]_vars

\* scale_all_to_reference on up to MaxCrystals crystals
InitLinear ==
    /\ \E n \in 1..MaxCrystals : lx \in [1..n -> {LXtal(l) : l \in MeasuredLists}]
    /\ lx0 = lx
    /\ lref \in ReferenceLists
    /\ sr = [pc |-> "loop", i |-> 1, rets |-> <<>>]
    /\ ls = NoLS
    /\ IdleRefine /\ IdleScale /\ IdleChecks

NextLinear ==
    \/ SR_Call /\ UNCHANGED <<varsRefine, varsScale, gt, fi, ig, hc, varsLate>>
    \/ LS_Collect /\ UNCHANGED <<varsRefine, varsScale, gt, fi, ig, hc, varsLate>>
    \/ LS_Fit /\ UNCHANGED <<varsRefine, varsScale, gt, fi, ig, hc, varsLate>>
    \/ SR_Result /\ UNCHANGED <<varsRefine, varsScale, gt, fi, ig, hc, varsLate>>
    \/ SR_Finish /\ UNCHANGED <<varsRefine, varsScale, gt, fi, ig, hc, varsLate>>

SpecLinear == InitLinear /\ [][NextLinear]_vars

\* The prediction gradient check, from the start of main
InitGrad ==
    /\ gt = [pc |-> "round", checkrxy |-> 0, k |-> 0, nref |-> 0, fail |-> 0,
             low |-> FALSE, nan |-> FALSE, tested |-> {}, val |-> Coefficient(0),
             ret |-> -1]
    /\ IdleRefine /\ IdleScale /\ IdleLinear /\ IdleGeom /\ IdleInteg /\ IdleSearch /\ IdleLate

NextGrad ==
    \/ GT_Round /\ UNCHANGED <<varsRefine, varsScale, varsLinear, fi, ig, hc, varsLate>>
    \/ GT_Test /\ UNCHANGED <<varsRefine, varsScale, varsLinear, fi, ig, hc, varsLate>>
    \/ GT_Return /\ UNCHANGED <<varsRefine, varsScale, varsLinear, fi, ig, hc, varsLate>>

SpecGrad == InitGrad /\ [][NextGrad]_vars

InitGeom ==
    /\ \E image \in Images, det \in Detectors, cell \in Cells :
          fi = [pc |-> "start", image |-> image, det |-> det, cell |-> cell,
                hmax |-> 0, kmax |-> 0, lmax |-> 0, h |-> 0, k |-> 0, l |-> 0,
                np |-> 0, cpeaks |-> << >>, last |-> NoPoint, n |-> -1,
                null |-> FALSE]
    /\ IdleRefine /\ IdleScale /\ IdleLinear
    /\ IdleGrad /\ IdleInteg /\ IdleSearch /\ IdleLate

NextGeom ==
    \/ FI_Start /\ UNCHANGED <<varsRefine, varsScale, varsLinear, gt, ig, hc, varsLate>>
    \/ FI_Point /\ UNCHANGED <<varsRefine, varsScale, varsLinear, gt, ig, hc, varsLate>>
    \/ FI_Return /\ UNCHANGED <<varsRefine, varsScale, varsLinear, gt, ig, hc, varsLate>>

SpecGeom == InitGeom /\ [][NextGeom]_vars

InitInteg ==
    /\ \E c \in Centres, radii \in Radii, data \in DataNames, flags \in FlagNames,
          bad \in BadRegions, mask \in MaskNames, use_max_adu \in BOOLEAN :
          ig = [pc |-> "find", cfs |-> c[1], css |-> c[2], radii |-> radii,
                data |-> data, flags |-> flags, bad |-> bad, mask |-> mask,
                use_max_adu |-> use_max_adu, aduph |-> 1,
                p |-> 0, p_cfs |-> 0, p_css |-> 0,
                bg_tot |-> 0, bg_tot_sq |-> 0, bg_counts |-> 0,
                pk_total |-> 0, pk_counts |-> 0, var |-> 0,
                pfs |-> Unwritten, pss |-> Unwritten,
                intensity |-> Unwritten, sigma_sq |-> Unwritten,
                saturated |-> FALSE, ret |-> -1, why |-> "none"]
    /\ IdleRefine /\ IdleScale /\ IdleLinear
    /\ IdleGrad /\ IdleGeom /\ IdleSearch /\ IdleLate

NextInteg ==
    \/ IG_Find /\ UNCHANGED <<varsRefine, varsScale, varsLinear, gt, fi, hc, varsLate>>
    \/ IG_Background /\ UNCHANGED <<varsRefine, varsScale, varsLinear, gt, fi, hc, varsLate>>
    \/ IG_Peak /\ UNCHANGED <<varsRefine, varsScale, varsLinear, gt, fi, hc, varsLate>>
    \/ IG_Variance /\ UNCHANGED <<varsRefine, varsScale, varsLinear, gt, fi, hc, varsLate>>

SpecInteg == InitInteg /\ [][NextInteg]_vars

\* The inner radius, again the other two radii, each times two
SearchRadii == { <<2, 2, 2>>, <<4, 4, 4>>, <<3, 3, 4>>, <<0, 2, 2>> }

InitSearch ==
    /\ \E data \in DataNames, flags \in {"null", "bad"}, radii \in SearchRadii,
          threshold \in {1, 5}, min_gradient \in {0, 8}, min_snr \in {0, 2} :
          hc = [pc |-> "start", panel |-> 1, data |-> data, flags |-> flags,
                radii |-> radii, threshold |-> threshold,
                min_gradient |-> min_gradient, min_snr |-> min_snr,
                fs |-> 0, ss |-> 0, mask_fs |-> 0, mask_ss |-> 0, did |-> FALSE,
                passes |-> 0, features |-> << >>, nrej_dis |-> 0, nrej_bad |-> 0, nrej_fra |-> 0,
                nrej_snr |-> 0, nrej_pro |-> 0, nacc |-> 0, ncull |-> 0,
                cfs |-> 0, css |-> 0, p |-> 0, p_cfs |-> 0, p_css |-> 0,
                bad |-> {}, mask |-> "null", use_max_adu |-> FALSE, aduph |-> 1,
                bg_tot |-> 0, bg_tot_sq |-> 0, bg_counts |-> 0,
                pk_total |-> 0, pk_counts |-> 0, fsct |-> 0, ssct |-> 0]
    /\ IdleRefine /\ IdleScale /\ IdleLinear
    /\ IdleGrad /\ IdleGeom /\ IdleInteg /\ IdleLate

NextSearch ==
    \/ HC_Start /\ UNCHANGED <<varsRefine, varsScale, varsLinear, gt, fi, ig, varsLate>>
    \/ HC_Seed /\ UNCHANGED <<varsRefine, varsScale, varsLinear, gt, fi, ig, varsLate>>
    \/ HC_Pass /\ UNCHANGED <<varsRefine, varsScale, varsLinear, gt, fi, ig, varsLate>>
    \/ HC_Climbed /\ UNCHANGED <<varsRefine, varsScale, varsLinear, gt, fi, ig, varsLate>>
    \/ HC_Background /\ UNCHANGED <<varsRefine, varsScale, varsLinear, gt, fi, ig, varsLate>>
    \/ HC_Peak /\ UNCHANGED <<varsRefine, varsScale, varsLinear, gt, fi, ig, varsLate>>
    \/ HC_Accept /\ UNCHANGED <<varsRefine, varsScale, varsLinear, gt, fi, ig, varsLate>>
    \/ HC_Cull /\ UNCHANGED <<varsRefine, varsScale, varsLinear, gt, fi, ig, varsLate>>

SpecSearch == InitSearch /\ [][NextSearch]_vars

InitValidate ==
    /\ \E old \in OldLists, data \in ValidateData, radii \in ValidateRadii,
          min_snr \in {0, 2} :
          vp = [pc |-> "new", old |-> old, flist |-> << >>, features |-> 1,
                alloc |-> FALSE, frees |-> <<0, 0>>, i |-> 0, n |-> 0,
                n_wtf |-> 0, n_int |-> 0, n_dft |-> 0, n_snr |-> 0, n_prx |-> 0,
                data |-> data, flags |-> "null", radii |-> radii, min_snr |-> min_snr,
                cfs |-> 0, css |-> 0, p |-> 0, p_cfs |-> 0, p_css |-> 0,
                bad |-> {}, mask |-> "null", use_max_adu |-> FALSE, aduph |-> 1,
                bg_tot |-> 0, bg_tot_sq |-> 0, bg_counts |-> 0,
                pk_total |-> 0, pk_counts |-> 0, fsct |-> 0, ssct |-> 0]
    /\ IdleRefine /\ IdleScale /\ IdleLinear
    /\ IdleGrad /\ IdleGeom /\ IdleInteg /\ IdleSearch
    /\ IdleCull /\ IdleRadius /\ IdleReflections /\ IdleBackend /\ IdleGeometry /\ IdlePass

NextValidate ==
    \/ VP_New /\ UNCHANGED <<varsEarly, cu, rr, irf, gui, geo, tp>>
    \/ VP_Feature /\ UNCHANGED <<varsEarly, cu, rr, irf, gui, geo, tp>>
    \/ VP_Background /\ UNCHANGED <<varsEarly, cu, rr, irf, gui, geo, tp>>
    \/ VP_Peak /\ UNCHANGED <<varsEarly, cu, rr, irf, gui, geo, tp>>
    \/ VP_Accept /\ UNCHANGED <<varsEarly, cu, rr, irf, gui, geo, tp>>
    \/ VP_Replace /\ UNCHANGED <<varsEarly, cu, rr, irf, gui, geo, tp>>

SpecValidate == InitValidate /\ [][NextValidate]_vars

\* The two routes by which an image comes to its list of peaks: the search of
\* a panel, or the validation of a list that was read in
InitPeaks == InitSearch \/ InitValidate

NextPeaks == NextSearch \/ NextValidate

SpecPeaks == InitPeaks /\ [][NextPeaks]_vars


InitCull ==
    /\ \E det \in CullDetectors, list \in PeakLists :
          cu = [pc |-> "panel", det |-> det,
                features |-> [q \in DOMAIN list |->
                                 [fs |-> list[q][1], ss |-> list[q][2], valid |-> TRUE]],
                ip |-> 0, nelim |-> 0, i |-> 0, n |-> 0, pnelim |-> 0, ret |-> -1]
    /\ IdleRefine /\ IdleScale /\ IdleLinear
    /\ IdleGrad /\ IdleGeom /\ IdleInteg /\ IdleSearch
    /\ IdleValidate /\ IdleRadius /\ IdleReflections /\ IdleBackend /\ IdleGeometry /\ IdlePass

NextCull ==
    \/ CU_Panel /\ UNCHANGED <<varsEarly, vp, rr, irf, gui, geo, tp>>
    \/ CU_Feature /\ UNCHANGED <<varsEarly, vp, rr, irf, gui, geo, tp>>

SpecCull == InitCull /\ [][NextCull]_vars


InitRadius ==
    /\ \E n_acc \in 0..MaxAcc, family \in ErrorFamilies :
          rr = [pc |-> "start", n_acc |-> n_acc, family |-> family,
                radius |-> 200, entry_radius |-> 200, n |-> -1, ret |-> -1]
    /\ IdleRefine /\ IdleScale /\ IdleLinear
    /\ IdleGrad /\ IdleGeom /\ IdleInteg /\ IdleSearch
    /\ IdleValidate /\ IdleCull /\ IdleReflections /\ IdleBackend /\ IdleGeometry /\ IdlePass

NextRadius ==
    \/ RD_Pair /\ UNCHANGED <<varsEarly, vp, cu, irf, gui, geo, tp>>
    \/ RD_Estimate /\ UNCHANGED <<varsEarly, vp, cu, irf, gui, geo, tp>>

SpecRadius == InitRadius /\ [][NextRadius]_vars


\* scale_all at its call of run_threads: the counters of qargs are zero and
\* nthreads is no more than n_crystals
InitPass ==
    /\ \E n_crystals \in 1..MaxTasks, nthreads \in 1..MaxWorkers :
       \E nr \in [1..n_crystals -> TaskCounts] :
          tp = [pc |-> "run", n_crystals |-> n_crystals, nr |-> nr,
                qa |-> [n_started |-> 0, n_done |-> 0, n_reflections |-> 0],
                pool |-> [n_started |-> 0, n_completed |-> 0, max |-> n_crystals],
                lock |-> 0,
                wk |-> [w \in 1..(IF n_crystals < nthreads THEN n_crystals ELSE nthreads)
                           |-> IdleThread],
                dones |-> [c \in 1..n_crystals |-> 0]]
    /\ IdleRefine /\ IdleScale /\ IdleLinear
    /\ IdleGrad /\ IdleGeom /\ IdleInteg /\ IdleSearch
    /\ IdleValidate /\ IdleCull /\ IdleRadius /\ IdleReflections /\ IdleBackend
    /\ IdleGeometry

NextPass ==
    \/ (\E w \in DOMAIN tp.wk : T_Take(w)) /\ UNCHANGED <<varsEarly, vp, cu, rr, irf, gui, geo>>
    \/ (\E w \in DOMAIN tp.wk : T_GetCrystal(w)) /\ UNCHANGED <<varsEarly, vp, cu, rr, irf, gui, geo>>
    \/ (\E w \in DOMAIN tp.wk : T_GetStarted(w)) /\ UNCHANGED <<varsEarly, vp, cu, rr, irf, gui, geo>>
    \/ (\E w \in DOMAIN tp.wk : T_ScaleCrystal(w)) /\ UNCHANGED <<varsEarly, vp, cu, rr, irf, gui, geo>>
    \/ (\E w \in DOMAIN tp.wk : T_Finish(w)) /\ UNCHANGED <<varsEarly, vp, cu, rr, irf, gui, geo>>
    \/ (\E w \in DOMAIN tp.wk : T_DoneLoad(w)) /\ UNCHANGED <<varsEarly, vp, cu, rr, irf, gui, geo>>
    \/ (\E w \in DOMAIN tp.wk : T_DoneStore(w)) /\ UNCHANGED <<varsEarly, vp, cu, rr, irf, gui, geo>>
    \/ (\E w \in DOMAIN tp.wk : T_ReflectionsStore(w)) /\ UNCHANGED <<varsEarly, vp, cu, rr, irf, gui, geo>>
    \/ T_Join /\ UNCHANGED <<varsEarly, vp, cu, rr, irf, gui, geo>>

SpecPass == InitPass /\ [][NextPass]_vars


InitReflections ==
    /\ \E il \in ReflectionLists, data \in IntegrateData, radii \in IntegrateRadii,
          closest \in {<<>>, <<2, 2>>}, min_snr \in {0, 2},
          integrate_saturated \in BOOLEAN, mask \in {"empty", "two"} :
          irf = [pc |-> "sort", il |-> il, n |-> 0, i |-> 0, closest |-> closest,
                 min_snr |-> min_snr, integrate_saturated |-> integrate_saturated,
                 n_saturated |-> 0,
                 redundancy |-> [k \in 1..Len(il) |-> -1],
                 counted |-> [k \in 1..Len(il) |-> FALSE],
                 found |-> [k \in 1..Len(il) |-> FALSE],
                 vetoed |-> [k \in 1..Len(il) |-> FALSE],
                 below |-> [k \in 1..Len(il) |-> FALSE],
                 garbage |-> FALSE, wrote |-> FALSE, ret |-> -1,
                 radii |-> radii, data |-> data, flags |-> "null", bad |-> {},
                 mask |-> mask, use_max_adu |-> TRUE, aduph |-> 1,
                 cfs |-> 0, css |-> 0, p |-> 0, p_cfs |-> 0, p_css |-> 0,
                 bg_tot |-> 0, bg_tot_sq |-> 0, bg_counts |-> 0,
                 pk_total |-> 0, pk_counts |-> 0, var |-> 0]
    /\ IdleRefine /\ IdleScale /\ IdleLinear
    /\ IdleGrad /\ IdleGeom /\ IdleInteg /\ IdleSearch
    /\ IdleValidate /\ IdleCull /\ IdleRadius /\ IdleBackend /\ IdleGeometry
    /\ IdlePass

NextReflections ==
    \/ IR_Sort /\ UNCHANGED <<varsEarly, vp, cu, rr, gui, geo, tp>>
    \/ IR_Locate /\ UNCHANGED <<varsEarly, vp, cu, rr, gui, geo, tp>>
    \/ IR_Background /\ UNCHANGED <<varsEarly, vp, cu, rr, gui, geo, tp>>
    \/ IR_Peak /\ UNCHANGED <<varsEarly, vp, cu, rr, gui, geo, tp>>
    \/ IR_Variance /\ UNCHANGED <<varsEarly, vp, cu, rr, gui, geo, tp>>
    \/ IR_Record /\ UNCHANGED <<varsEarly, vp, cu, rr, gui, geo, tp>>

SpecReflections == InitReflections /\ [][NextReflections]_vars

InitBackend ==
    /\ gui = [pc |-> "init", running |-> 0, pid |-> 0, live |-> {}, exited |-> {},
              watched |-> {}, closed |-> {}, io |-> 0, lines |-> 0,
              spawned |-> 0, calls |-> 0, cancels |-> 0, signals |-> 0,
              signalled |-> {}, ret |-> -1, why |-> "none"]
    /\ IdleRefine /\ IdleScale /\ IdleLinear
    /\ IdleGrad /\ IdleGeom /\ IdleInteg /\ IdleSearch
    /\ IdleValidate /\ IdleCull /\ IdleRadius /\ IdleReflections /\ IdleGeometry
    /\ IdlePass

NextBackend ==
    \/ GB_Init /\ UNCHANGED <<varsEarly, vp, cu, rr, irf, geo, tp>>
    \/ GB_RunUnitcell /\ UNCHANGED <<varsEarly, vp, cu, rr, irf, geo, tp>>
    \/ GB_ChildExits /\ UNCHANGED <<varsEarly, vp, cu, rr, irf, geo, tp>>
    \/ GB_Watch /\ UNCHANGED <<varsEarly, vp, cu, rr, irf, geo, tp>>
    \/ GB_Readable /\ UNCHANGED <<varsEarly, vp, cu, rr, irf, geo, tp>>
    \/ GB_Cancel /\ UNCHANGED <<varsEarly, vp, cu, rr, irf, geo, tp>>
    \/ GB_Shutdown /\ UNCHANGED <<varsEarly, vp, cu, rr, irf, geo, tp>>

SpecBackend == InitBackend /\ [][NextBackend]_vars

InitGeometry ==
    /\ \E file \in GeometryFiles, rest_ok \in BOOLEAN :
          geo = [pc |-> "open", file |-> file, pos |-> 0, rest_ok |-> rest_ok,
                 n_panels |-> -1, size |-> -1, panels |-> <<>>,
                 written |-> {}, outside |-> {}, ret |-> "none", why |-> "none"]
    /\ IdleRefine /\ IdleScale /\ IdleLinear
    /\ IdleGrad /\ IdleGeom /\ IdleInteg /\ IdleSearch
    /\ IdleValidate /\ IdleCull /\ IdleRadius /\ IdleReflections /\ IdleBackend
    /\ IdlePass

NextGeometry ==
    \/ GD_Open /\ UNCHANGED <<varsEarly, vp, cu, rr, irf, gui, tp>>
    \/ GD_Line /\ UNCHANGED <<varsEarly, vp, cu, rr, irf, gui, tp>>
    \/ GD_End /\ UNCHANGED <<varsEarly, vp, cu, rr, irf, gui, tp>>

SpecGeometry == InitGeometry /\ [][NextGeometry]_vars

\* ------------------------------------------------- properties: refinement

\* C1: whenever refine_prediction fails because fewer than 10 pairs are
\* accepted (in the initial pairing or in the re-pairing after the cycles),
\* it returns non-zero and the crystal's detector shift and unit cell equal
\* their values from before the call.
C1_FewPairsLeavesCrystal ==
    (rp.pc = "done" /\ rp.why \in {"few1", "few2"})
        => /\ ret # 0
           /\ cr.shift = entry.shift
           /\ cr.cell = entry.cell

\* C2: if the solve fails in any cycle, refine_prediction returns non-zero
\* and the crystal's unit cell and detector shift equal their values from
\* before the call, whatever number of cycles had completed.
C2_SolveFailureLeavesCrystal ==
    (rp.pc = "done" /\ rp.why = "solve")
        => /\ ret # 0
           /\ cr.shift = entry.shift
           /\ cr.cell = entry.cell

\* C6: the unit cell changes only in the one cell write of iterate, which
\* adds that cycle's (NaN-clamped) shift to every one of the 9 components
\* and comes with both detector-shift totals updated; a failed solve changes
\* neither the cell nor the totals.
C6_CellWrittenWhole ==
    [][ /\ (cr'.cell # cr.cell \/ it.pc = "apply") =>
              /\ it.pc = "apply" /\ it'.pc = "ok"
              /\ \A k \in 1..9 :
                    cr'.cell[k] = cr.cell[k] + (IF it.shifts[k].nan THEN 0 ELSE it.shifts[k].v)
              /\ rp'.total[1] = rp.total[1] + it.shifts[10].v
              /\ rp'.total[2] = rp.total[2] + it.shifts[11].v
              /\ \A k \in 1..11 : ~it.shifts[k].nan
        /\ (it.pc = "solve" /\ it'.pc = "failed") =>
              /\ cr'.cell = cr.cell
              /\ rp'.total = rp.total
      ]_varsRefine

\* C6 witness: a cycle whose solve gave NaN for asx and 1 for the other
\* parameters has been applied to the cell.
C6_Witness ==
    /\ it.pc = "ok"
    /\ it.shifts[1].v = 0
    /\ it.shifts[2].v = 1
    /\ cr.cell # entry.cell

\* C10: on every return path of refine_prediction the crystal holds no
\* reflection list, and the transient reflection list and the pair array
\* allocated by the call have been released.
C10_AllReleasedOnReturn ==
    (caller = "refine_prediction" /\ rp.pc = "done")
        => /\ cr.refls = "NULL"
           /\ heap = NoHeap

\* --------------------------------------------------- properties: pairing

\* Feature f of the image has admissible rounded indices
Admissible(f) ==
    LET hkl == RoundedIndices(img.features[f])
    IN  ~IsOrigin(hkl) /\ ~TooLarge(hkl)

\* The features among the pairs pair_peaks returns, and among those that
\* passed its distance test
ReturnedFeatures == {rps[p].f : p \in 1..pp.n_final}

AcceptedFeatures == {rps[p].f : p \in 1..pp.n_acc}

Below(f) == 3 * Predicted(f).dist < img.lowest[World]

Above(f) == 3 * Predicted(f).dist > img.lowest[World]

Holding == {w \in DOMAIN wk : wk[w].pc \in {"got", "cycle", "finished"}}

\* C3: in a pass of scale_all or refine_all the task source hands every crystal
\* index to at most one task, and once all workers have left to exactly one;
\* no two workers hold the same crystal, and n_started never exceeds n_crystals.
C3_EachCrystalOnce ==
    sa.pc \in {"threads", "free", "test", "done"} =>
        /\ qa.n_started <= Len(xt)
        /\ \A i \in DOMAIN handed : handed[i] \in 1..Len(xt)
        /\ \A i, j \in DOMAIN handed : i # j => handed[i] # handed[j]
        /\ \A v, w \in Holding : v # w => wk[v].task.crystal # wk[w].task.crystal
        /\ AllExited => {handed[i] : i \in DOMAIN handed} = 1..Len(xt)

\* Two workers each holding a finished task on a crystal at the same time
C3_Witness ==
    /\ sa.pc = "threads"
    /\ Len(xt) = 2
    /\ Len(handed) = 2
    /\ \E v, w \in Holding : v # w /\ wk[v].pc = "finished" /\ wk[w].pc = "finished"

\* ------------------------------------------------------ properties: scaling

\* C5: whatever scale_all has done so far, every crystal still has the cell,
\* the detector shift, the profile radius and the reflection list it had
\* before the call.
C5_OnlyGAndB ==
    sa.entry = "scale_all" =>
        /\ Len(xt) = Len(xt0)
        /\ \A i \in DOMAIN xt :
              /\ xt[i].cell = xt0[i].cell
              /\ xt[i].shift = xt0[i].shift
              /\ xt[i].radius = xt0[i].radius
              /\ xt[i].refls = xt0[i].refls

\* scale_all has returned after several outer iterations with a scale factor
\* and a B factor moved
C5_Witness ==
    /\ sa.entry = "scale_all"
    /\ sa.pc = "done"
    /\ sa.niter >= 2
    /\ \E i \in DOMAIN xt : xt[i].osf # xt0[i].osf
    /\ \E i \in DOMAIN xt : xt[i].Bfac # xt0[i].Bfac

\* In the parallel phase the list is the live one made by this iteration's
\* merge, and every task refers to it.
FreshListInUse ==
    (sa.entry = "scale_all" /\ sa.pc = "threads") =>
        /\ full.live
        /\ full.id = sa.niter + 1
        /\ qa.full = full.id
        /\ \A w \in Holding : wk[w].task.full = full.id

\* No step of the parallel phase writes the list.
ListReadOnly ==
    (sa.entry = "scale_all" /\ sa.pc = "threads" /\ sa'.pc = "threads") => full' = full

\* The list is freed only with every worker gone, every crystal done and the
\* residual recomputed against it.
FreedAfterResidual ==
    (sa.entry = "scale_all" /\ full.live /\ ~full'.live) =>
        /\ AllExited
        /\ qa.n_done = Len(xt)
        /\ sa.new_res = Finite(TotalLogR(xt, full.refl))

\* C8: in scale_all the merged list is only read during the parallel phase,
\* each outer iteration works on the list its own merge step made, and the
\* list is freed only after all workers have finished and the residual has
\* been recomputed.
C8_ListSharedReadOnly ==
    /\ []FreshListInUse
    /\ [][ListReadOnly /\ FreedAfterResidual]_vars

\* A later outer iteration with two workers inside do_scale_refine at once
C8_Witness ==
    /\ sa.entry = "scale_all"
    /\ sa.pc = "threads"
    /\ sa.niter >= 1
    /\ \E v, w \in DOMAIN wk : v # w /\ wk[v].pc = "cycle" /\ wk[w].pc = "cycle"

\* ------------------------------------------------ properties: linear scaling

\* C4: linear_scale never terminates the process, and whenever fewer than two
\* pairs remain, the regression fails or the fitted G is NaN or infinite, it
\* has returned non-zero.
C4_FailuresReturned ==
    /\ ls.pc # "aborted"
    /\ (ls.pc = "returned"
          /\ (ls.n < MinPairsScale \/ ls.r # 0 \/ ls.G.kind \in {"nan", "inf"}))
       => ls.ret # 0

\* C9: every crystal whose linear_scale call failed keeps its G and B, every
\* crystal whose call succeeded has the fitted G and B = 0, and no failure
\* ends the loop while crystals remain.
C9_FailureKeepsLoopGoing ==
    /\ \A i \in DOMAIN sr.rets :
          IF sr.rets[i] # 0
          THEN lx[i].osf = lx0[i].osf /\ lx[i].Bfac = lx0[i].Bfac
          ELSE lx[i].osf # Unset /\ lx[i].Bfac = 0
    /\ \A i \in DOMAIN lx : i > Len(sr.rets) => lx[i] = lx0[i]
    /\ ~(sr.pc = "wait" /\ ls.pc = "aborted")

\* The residual changed by less than 1% of the old one in this iteration
SmallChange ==
    /\ ~sa.old_res.inf
    /\ ~sa.new_res.inf
    /\ 100 * Abs(sa.new_res.v - sa.old_res.v) < sa.old_res.v

\* The loop test of scale_all goes round again only below 10 iterations and
\* without a small change, and leaves otherwise; leaving touches no crystal.
OuterLoopTest ==
    (sa.entry = "scale_all" /\ sa.pc = "test") =>
        /\ sa'.pc = "merge" => (sa.niter < 10 /\ ~SmallChange)
        /\ sa'.pc = "done" => ((sa.niter = 10 \/ SmallChange) /\ xt' = xt)
        /\ sa'.pc \in {"test", "merge", "done"}

\* C11: the outer loop of scale_all makes at most 10 iterations, stops after
\* the first iteration whose residual differs from the previous one by less
\* than 1% of the previous one, and on reaching 10 iterations only records
\* the message and returns with the crystals as they are.
C11_OuterLoopBounded ==
    /\ [](sa.entry = "scale_all" =>
             /\ sa.niter <= 10
             /\ sa.gave_up => (sa.pc = "done" /\ sa.niter = 10))
    /\ [][OuterLoopTest]_vars

\* scale_all has returned after 10 iterations with a scale factor moved
C11_Witness ==
    /\ sa.entry = "scale_all"
    /\ sa.pc = "done"
    /\ sa.niter = 10
    /\ sa.gave_up
    /\ \E i \in DOMAIN xt : xt[i].osf # xt0[i].osf

\* ------------------------------------------------ properties: gradient check

\* The program fails exactly when some coefficient was below 0.99, fewer than
\* 10 predicted reflections counting as a coefficient of 0.
FailsOnLowCoefficient == (gt.ret = 1) <=> gt.low

ErrorAt(q) == Abs(r_dev(rps[q + 1]))

\* Every pair j after position i lies on or above the line through the error
\* of pair i: |error[j]| >= 0.001e9 + (|error[i]|/i)*j
TransitionAt(i) ==
    \A j \in (i + 1)..(pp.n_acc - 1) :
        ErrorAt(j) * i >= OutlierOffset * i + ErrorAt(i) * j

Transitions == {i \in 1..(pp.n_acc - 2) : TransitionAt(i)}

\* check_outlier_transition has run in this call of pair_peaks
OutlierChecked == caller # "none" /\ pp.pc \in {"add", "free", "ret"}

Eligible(c, p) ==
    LET r == xt[c].refls[p]
    IN  /\ r.free = FALSE
        /\ r.h \in DOMAIN full.refl
        /\ full.refl[r.h].red >= 2
        /\ full.refl[r.h].I > 0
        /\ r.p4 > 0
        /\ r.I > 3 * r.esd

\* The workers that have been through scale_iterate for their crystal
Iterated == {w \in DOMAIN wk : wk[w].pc \in {"cycle", "finished"} /\ wk[w].i > 0}

\* C15: the reflections that went into the normal equations of scale_iterate
\* are exactly the eligible ones, and nr is their number.
C15_ContributesIffEligible ==
    (sa.entry = "scale_all" /\ sa.pc = "threads") =>
        \A w \in Iterated :
            LET c == wk[w].task.crystal
            IN  /\ wk[w].used = {p \in 1..Len(xt[c].refls) : Eligible(c, p)}
                /\ wk[w].task.n_reflections =
                       Cardinality({p \in 1..Len(xt[c].refls) : Eligible(c, p)})

\* A crystal has been through scale_iterate with some of its reflections in
\* the normal equations and some left out, and a reflection has been left out
\* that fails the 3 sigma test alone
C15_Witness ==
    /\ sa.entry = "scale_all"
    /\ sa.pc = "threads"
    /\ \E w \in Iterated :
          /\ wk[w].task.n_reflections >= 1
          /\ wk[w].task.n_reflections < Len(xt[wk[w].task.crystal].refls)
    /\ \E w \in Iterated :
          LET r == xt[wk[w].task.crystal].refls
          IN  \E p \in 1..Len(r) :
                  /\ p \notin wk[w].used
                  /\ ~r[p].free
                  /\ r[p].h \in DOMAIN full.refl
                  /\ full.refl[r[p].h].red >= 2
                  /\ full.refl[r[p].h].I > 0
                  /\ r[p].p4 > 0

\* --------------------------------------------- properties: do_scale_refine

\* Worker w makes a cycle of do_scale_refine in this step
CycleStep(w) == wk[w].pc = "cycle" /\ wk'[w] # wk[w]

\* The residual after the cycle of this step differs from the one before it
\* by less than 1% of the new value
SmallResidualChange(w) ==
    100 * Abs(wk'[w].old_dev - wk[w].old_dev) < wk'[w].old_dev

\* A cycle counts one up and is the last one exactly when the residual
\* changed by less than 1% of its new value or it was the tenth
CycleCounted(w) ==
    CycleStep(w) =>
        /\ wk'[w].i = wk[w].i + 1
        /\ wk'[w].pc \in {"cycle", "finished"}
        /\ wk'[w].pc = "finished" <=> (SmallResidualChange(w) \/ wk'[w].i = 10)

\* C16: do_scale_refine makes between 1 and 10 cycles of scale_iterate and
\* stops after the first one that changes the residual by less than 1% of the
\* new value; the count of cycles bounds it for every crystal, flagged or not.
C16_CyclesBounded ==
    /\ [](sa.entry = "scale_all" =>
             \A w \in DOMAIN wk :
                 /\ wk[w].i <= 10
                 /\ wk[w].pc = "cycle" => wk[w].i < 10
                 /\ wk[w].pc = "finished" => wk[w].i >= 1)
    /\ [][sa.entry = "scale_all" => \A w \in DOMAIN wk : CycleCounted(w)]_vars

\* do_scale_refine has stopped before the tenth cycle for a crystal that
\* scale_iterate flagged, with more than one cycle made
C16_Witness ==
    /\ sa.entry = "scale_all"
    /\ \E w \in DOMAIN wk :
          /\ wk[w].pc = "finished"
          /\ wk[w].i > 1
          /\ wk[w].i < 10
          /\ xt[wk[w].task.crystal].flag # "none"

\* ------------------------------------------ properties: find_intersections

\* The last lattice point examined is not the origin and passed the
\* forward-scatter and the resolution test
PassedTests == fi.last.end \in {"far", "nopanel", "peak"}

\* locate_peak has been called for the last lattice point examined
ReachedPanelStep == fi.last.end \in {"nopanel", "peak"}

Negative(r) == r.kind = "fin" /\ r.D < r.k * r.k

Positive(r) == (r.kind = "fin" /\ r.D > r.k * r.k) \/ r.kind = "inf"

OppositeSigns ==
    \/ Negative(fi.last.rlow) /\ Positive(fi.last.rhigh)
    \/ Positive(fi.last.rlow) /\ Negative(fi.last.rhigh)

BelowCutoff(r) ==
    /\ r.kind = "fin"
    /\ (r.k - 1) * (r.k - 1) < r.D
    /\ r.D < (r.k + 1) * (r.k + 1)

\* C17: a lattice point that passed the tests goes on to the panel location
\* exactly when its two excitation errors have opposite signs or one of them
\* is below the profile cutoff; inside and close are never both set, and
\* opposite signs give inside.
C17_InsideOrClose ==
    PassedTests =>
        /\ ReachedPanelStep <=>
               (OppositeSigns \/ BelowCutoff(fi.last.rlow) \/ BelowCutoff(fi.last.rhigh))
        /\ ~(fi.last.inside /\ fi.last.close)
        /\ ReachedPanelStep => (fi.last.inside \/ fi.last.close)
        /\ (ReachedPanelStep /\ OppositeSigns) => fi.last.inside
        /\ fi.last.close =>
               (BelowCutoff(fi.last.rlow) \/ BelowCutoff(fi.last.rhigh))

\* A lattice point with errors of opposite signs, one of them below the
\* cutoff, has gone on to the panel location as inside
C17_Witness ==
    /\ ReachedPanelStep
    /\ OppositeSigns
    /\ BelowCutoff(fi.last.rlow)
    /\ fi.last.inside

\* ------------------------------------------------- properties: locate_peak

\* The panels (numbered from 0) whose bounds hold the projection of the last
\* lattice point: min <= cl*x*res/(k+z) + c <= max in both directions
PanelsHolding ==
    LET q == fi.last.q
        den == fi.image.kcen + q.z
    IN  {p \in 0..(Len(fi.det) - 1) :
            LET pn == fi.det[p + 1]
                xnum == pn.clen * q.x * pn.res + pn.cx * den
                ynum == pn.clen * q.y * pn.res + pn.cy * den
            IN  /\ pn.min_x * den <= xnum /\ xnum <= pn.max_x * den
                /\ pn.min_y * den <= ynum /\ ynum <= pn.max_y * den}

\* C18: locate_peak gives panel p exactly when p is the one panel whose bounds
\* hold the projected coordinate, and -1 when no panel or several hold it.
C18_OnePanelOrNone ==
    ReachedPanelStep =>
        /\ fi.image.kcen + fi.last.q.z > 0
        /\ \A p \in 0..(Len(fi.det) - 1) :
               fi.last.p = p <=> PanelsHolding = {p}
        /\ fi.last.p = -1 <=> Cardinality(PanelsHolding) # 1
        /\ fi.last.p \in -1..(Len(fi.det) - 1)

\* A peak on two panels of a detector of three has been given no panel
C18_Witness ==
    /\ ReachedPanelStep
    /\ Len(fi.det) = 3
    /\ Cardinality(PanelsHolding) = 2
    /\ fi.last.p = -1

\* ------------------------------------------------ properties: integrate_peak

\* The panels whose bounds hold the centre
CentrePanels ==
    {q \in DOMAIN IDetector :
        /\ IDetector[q].min_fs <= ig.cfs /\ ig.cfs <= IDetector[q].max_fs
        /\ IDetector[q].min_ss <= ig.css /\ ig.css <= IDetector[q].max_ss}

OffsetBox == (-2..2) \X (-2..2)

\* The offsets from the centre of the pixels of the disc of radius r2 / 2
Disc(r2) ==
    {d \in OffsetBox : /\ 2 * d[1] <= r2 /\ -2 * d[1] <= r2
                       /\ 2 * d[2] <= r2 /\ -2 * d[2] <= r2
                       /\ 4 * (d[1] * d[1] + d[2] * d[2]) <= r2 * r2}

Aperture == Disc(ig.radii[1])

Annulus ==
    {d \in Disc(ig.radii[3]) :
        4 * (d[1] * d[1] + d[2] * d[2]) >= ig.radii[2] * ig.radii[2]}

PixelOutside(pn, d) ==
    \/ ig.cfs + d[1] < pn.min_fs \/ ig.cfs + d[1] > pn.max_fs
    \/ ig.css + d[2] < pn.min_ss \/ ig.css + d[2] > pn.max_ss

PixelInBadRegion(d) == <<ig.cfs + d[1], ig.css + d[2]>> \in ig.bad

\* The pixel misses the good bit (bit 0) or has the bad bit (bit 1)
PixelFlagged(d) ==
    /\ ig.flags # "null"
    /\ FlagsAt(ig.flags, ig.cfs + d[1], ig.css + d[2]) \in {0, 2, 3}

\* The annulus pixels outside the peak mask: those sampled for the background
BackgroundSamples(pn) ==
    {d \in Annulus :
        ~Masked(ig.mask, ig.cfs + d[1] - pn.min_fs, ig.css + d[2] - pn.min_ss)}

PixelValue == [d \in OffsetBox |-> DataAt(ig.data, ig.cfs + d[1], ig.css + d[2])]

PixelSquare == [d \in OffsetBox |-> PixelValue[d] * PixelValue[d]]

\* The sign of pk_counts * bg_var + aduph * pk_total, from the pixel values
NegativeVariance(pn) ==
    LET n == Cardinality(BackgroundSamples(pn))
        tot == SumOver(PixelValue, BackgroundSamples(pn))
        tot_sq == SumOver(PixelSquare, BackgroundSamples(pn))
        npk == Cardinality(Aperture)
        pk == SumOver(PixelValue, Aperture)
    IN  npk * (n * tot_sq - tot * tot) + ig.aduph * n * (n * pk - npk * tot) < 0

\* The cases in which the peak is to be vetoed
MustVeto ==
    IF CentrePanels = {} THEN TRUE
    ELSE LET pn == IDetector[SetMin(CentrePanels)]
         IN  \/ pn.no_index
             \/ \E d \in Annulus \cup Aperture :
                    PixelOutside(pn, d) \/ PixelInBadRegion(d)
             \/ \E d \in BackgroundSamples(pn) \cup Aperture : PixelFlagged(d)
             \/ BackgroundSamples(pn) = {}
             \/ Aperture = {}
             \/ NegativeVariance(pn)

\* C19: integrate_peak returns non-zero when the centre is on no panel or on a
\* no_index panel, when a sampled pixel of the annulus or the aperture is off
\* the panel, in a bad region or has disallowed flag bits, when no background
\* or no aperture pixel was counted and when the variance is negative, and
\* then it has written neither the intensity nor sigma.
C19_VetoCases ==
    ig.pc = "done" =>
        /\ ig.ret \in {0, 1}
        /\ MustVeto => ig.ret # 0
        /\ ig.ret # 0 => MustVeto
        /\ ig.ret # 0 => (~ig.intensity.set /\ ~ig.sigma_sq.set)
        /\ ig.ret = 0 => (ig.intensity.set /\ ig.sigma_sq.set)

\* A peak has been vetoed for its negative variance, after both loops, with a
\* pixel of a bad flag under the peak mask
C19_Witness ==
    /\ ig.pc = "done"
    /\ ig.ret = 1
    /\ ig.pfs.set
    /\ ~ig.intensity.set
    /\ \E d \in Annulus : PixelFlagged(d)

\* ------------------------------------- properties: search_peaks_in_panel

MaskInPanel ==
    /\ IDetector[hc.panel].min_fs <= hc.mask_fs /\ hc.mask_fs <= IDetector[hc.panel].max_fs
    /\ IDetector[hc.panel].min_ss <= hc.mask_ss /\ hc.mask_ss <= IDetector[hc.panel].max_ss

\* The climb ended farther than the inner radius from its seed
Drifted ==
    4 * ((hc.mask_fs - hc.fs) * (hc.mask_fs - hc.fs)
         + (hc.mask_ss - hc.ss) * (hc.mask_ss - hc.ss)) > hc.radii[1] * hc.radii[1]

\* A pass that goes round again has moved to a pixel of higher value
PassClimbs ==
    (hc.pc = "climb" /\ hc'.pc = "climb") =>
        DataAt(hc.data, hc'.mask_fs, hc'.mask_ss) > DataAt(hc.data, hc.mask_fs, hc.mask_ss)

\* A climb that drifted is counted as rejected and adds no feature
DriftRejected ==
    (hc.pc = "climbed" /\ Drifted /\ hc' # hc) =>
        /\ hc'.features = hc.features
        /\ hc'.nrej_dis = hc.nrej_dis + 1
        /\ hc'.nacc = hc.nacc

\* Every feature was added for a climb that ended within the inner radius of
\* its seed
FeaturesNearSeed ==
    \A q \in DOMAIN hc.features :
        LET f == hc.features[q]
        IN  4 * ((f.top[1] - f.from[1]) * (f.top[1] - f.from[1])
                 + (f.top[2] - f.from[2]) * (f.top[2] - f.from[2]))
                <= hc.radii[1] * hc.radii[1]

\* The number of pixels of the panel that is searched
PanelPixels ==
    (IDetector[hc.panel].max_fs - IDetector[hc.panel].min_fs + 1)
        * (IDetector[hc.panel].max_ss - IDetector[hc.panel].min_ss + 1)

\* C20: the hill climb from a seed comes to an end, since every pass that is
\* followed by another has moved to a pixel of higher value and there are no
\* more passes than pixels; the maximum it ends at is within the bounds of the
\* panel, so that none of the four asserts fails; a climb that ended farther
\* than the inner radius from its seed is rejected and adds no feature.
C20_ClimbEndsInPanel ==
    /\ [](/\ hc.pc # "abort"
          /\ hc.pc \in {"climb", "climbed"} => MaskInPanel
          /\ hc.passes <= PanelPixels
          /\ FeaturesNearSeed)
    /\ [][PassClimbs /\ DriftRejected]_vars

\* A climb of more than one pass has ended on the edge of the panel, farther
\* than the inner radius from its seed
C20_Witness ==
    /\ hc.pc = "climbed"
    /\ Drifted
    /\ hc.mask_fs = IDetector[hc.panel].max_fs
    /\ hc.passes > 1

\* ------------------------------- properties: proximity of accepted peaks

\* The list that the scan of the panel or the validation is building, and
\* 2 * ir_inn times two
BuiltFeatures ==
    IF hc.pc # "idle" THEN hc.features
    ELSE IF vp.pc # "idle" THEN vp.flist ELSE << >>

BuiltReach ==
    IF hc.pc # "idle" THEN 2 * hc.radii[1]
    ELSE IF vp.pc # "idle" THEN 2 * vp.radii[1] ELSE 0

\* The position of the feature is a number: pk_total was not zero
Positioned(f) == f.b # 0

\* The distance of the two features is a number that is not below 2 * ir_inn
Apart(f, g, r2) ==
    /\ Positioned(f) /\ Positioned(g)
    /\ LET dfs == f.fa * g.b - g.fa * f.b
           dss == f.sa * g.b - g.sa * f.b
       IN  r2 <= 0 \/ 4 * (dfs * dfs + dss * dss) >= r2 * r2 * f.b * f.b * g.b * g.b

Candidate(g) ==
    [fa |-> 2 * g.fsct + g.pk_total, sa |-> 2 * g.ssct + g.pk_total,
     b |-> 2 * g.pk_total]

\* The list only ever grows at its end, by one feature
KeptFirst(old, new) ==
    \/ new = old
    \/ Len(new) = Len(old) + 1 /\ SubSeq(new, 1, Len(old)) = old

\* A candidate counted as rejected for proximity is nearer than 2 * ir_inn to
\* a feature that is in the list already, and is not added
ProximityStep(g, old, new, counted) ==
    counted =>
        /\ new = old
        /\ \E q \in DOMAIN old :
              /\ Positioned(old[q]) /\ Positioned(Candidate(g))
              /\ ~Apart(old[q], Candidate(g), 2 * g.radii[1])

PassesTests ==
    LET c == Candidate(vp)
        pn == IDetector[vp.p]
        var == VarianceNumerator(vp)
    IN  /\ var >= 0
        /\ ~QuotientLess(c.fa, c.b, pn.min_fs) /\ ~QuotientGreater(c.fa, c.b, pn.max_fs)
        /\ ~QuotientLess(c.sa, c.b, pn.min_ss) /\ ~QuotientGreater(c.sa, c.b, pn.max_ss)
        /\ ~(var > 0 /\ vp.min_snr > 0
             /\ vp.pk_total * vp.pk_total < vp.min_snr * vp.min_snr * var)
        /\ \A q \in DOMAIN vp.flist :
              \/ ~Positioned(c) \/ ~Positioned(vp.flist[q])
              \/ Apart(c, vp.flist[q], 2 * vp.radii[1])

\* The new list changes only when an old feature has been integrated, and
\* then by the one feature at the position integrate_peak gave
OneFeatureEach ==
    /\ vp'.old = vp.old
    /\ vp.pc # "variance" => vp'.flist = vp.flist
    /\ vp.pc = "variance" =>
          vp'.flist = IF PassesTests
                      THEN Append(vp.flist, [fa |-> Candidate(vp).fa,
                                             sa |-> Candidate(vp).sa,
                                             b |-> Candidate(vp).b, from |-> vp.i])
                      ELSE vp.flist

\* The features of the new list come from different old features, in order
FromDistinct ==
    \A q1, q2 \in DOMAIN vp.flist :
        q1 < q2 => (vp.flist[q1].from < vp.flist[q2].from
                    /\ vp.flist[q2].from < Len(vp.old))

\* C23: validate_peaks builds a new list that gets one feature, at the
\* position integrate_peak found, for each old feature that comes through
\* integration and passes the centroid, signal to noise and proximity tests,
\* and nothing else; the new list is no longer than the old one; on return
\* the image points to the new list and the old one has been freed once;
\* when the new list could not be allocated the image still points to the
\* old list, which is neither freed nor changed.
C23_ListReplaced ==
    /\ [](vp.pc # "idle" =>
            /\ FromDistinct
            /\ Len(vp.flist) <= Len(vp.old)
            /\ vp.frees[1] <= 1 /\ vp.frees[2] = 0
            /\ vp.pc # "returned" => (vp.features = 1 /\ vp.frees = <<0, 0>>)
            /\ (vp.pc = "returned" /\ vp.alloc) =>
                  (vp.features = 2 /\ vp.frees = <<1, 0>>)
            /\ (vp.pc = "returned" /\ ~vp.alloc) =>
                  (vp.features = 1 /\ vp.frees = <<0, 0>> /\ vp.flist = << >>))
    /\ [][(vp.pc # "idle" /\ vp'.pc # "idle") => OneFeatureEach]_vars

\* A list of three old features has been replaced by a list of one: one old
\* feature was a removed one and the centroid of another fell off the panel
C23_Witness ==
    /\ vp.pc = "returned"
    /\ vp.features = 2
    /\ vp.frees = <<1, 0>>
    /\ Len(vp.old) = 3
    /\ Len(vp.flist) = 1
    /\ vp.n_wtf = 1
    /\ vp.n_dft = 1

\* ------------------------------------------------ properties: cull_peaks

\* The peak that the pass of cull_peaks_in_panel looks at
CullPeak == cu.features[cu.i + 1]

CullOnPanel ==
    LET pn == cu.det[cu.ip + 1]
    IN  /\ CullPeak.valid
        /\ CullPeak.fs >= pn.min_fs /\ CullPeak.fs <= pn.max_fs
        /\ CullPeak.ss >= pn.min_ss /\ CullPeak.ss <= pn.max_ss

\* The peaks in line with it in the direction of the panel, itself included:
\* the same row (ss) for 'f', the same column (fs) for 's'
AlignedGroup ==
    { j \in DOMAIN cu.features :
         /\ cu.features[j].valid
         /\ IF cu.det[cu.ip + 1].badrow = "f"
            THEN Within2(CullPeak.ss, cu.features[j].ss)
            ELSE Within2(CullPeak.fs, cu.features[j].fs) }

\* The peaks that the step removes
Removed == { j \in DOMAIN cu.features : cu.features[j].valid /\ ~cu'.features[j].valid }

\* C22: on a panel with a bad-row direction a group of peaks is removed
\* exactly when it has at least 4 peaks in line (within 2 pixels) along a row
\* or column in the direction of the panel, only peaks of the group are
\* removed, the number returned is the number removed, and nothing is removed
\* for a panel with direction '-'.
C22_AlignedGroupsCulled ==
    /\ [][/\ (cu.pc = "feature" /\ CullOnPanel) =>
                Removed = IF Cardinality(AlignedGroup) >= 4 THEN AlignedGroup ELSE {}
          /\ (cu.pc = "feature" /\ ~CullOnPanel) => Removed = {}
          /\ cu.pc = "panel" => cu'.features = cu.features]_vars
    /\ [](cu.pc = "returned" =>
             cu.ret = Cardinality({ j \in DOMAIN cu.features : ~cu.features[j].valid }))

\* --------------------------------------------- properties: refine_radius

\* max(2, (n_acc - 1) - n_acc / 50)
ClaimedIndex ==
    IF (rr.n_acc - 1) - (rr.n_acc \div 50) > 2
    THEN (rr.n_acc - 1) - (rr.n_acc \div 50) ELSE 2

\* C24: with 3 accepted pairs or more refine_radius returns 0 and the
\* profile radius is the |excitation error| at index
\* max(2, (n_acc - 1) - n_acc / 50) of the sorted pairs, an index within
\* 0..n_acc-1; with fewer than 3 it returns non-zero and leaves the profile
\* radius as it was.
C24_RadiusFromOrderStatistic ==
    /\ rr.pc \in {"start", "paired"} => rr.radius = rr.entry_radius
    /\ (rr.pc = "done" /\ rr.ret = 0) =>
          /\ rr.n_acc >= 3
          /\ rr.n = ClaimedIndex
          /\ 0 <= rr.n /\ rr.n <= rr.n_acc - 1
          /\ rr.radius = SortedAt(rr.family, rr.n_acc, ClaimedIndex)
          /\ Cardinality({ k \in 0..(rr.n_acc - 1) :
                              FamilyErrorAt(rr.family, rr.n_acc, k) < rr.radius }) <= rr.n
    /\ (rr.pc = "done" /\ rr.n_acc < 3) => (rr.ret = 1 /\ rr.radius = rr.entry_radius)
    /\ (rr.pc = "done" /\ rr.ret # 0) => rr.radius = rr.entry_radius

\* A hundred pairs in falling order: the radius is the value at index 97
C24_Witness ==
    /\ rr.pc = "done"
    /\ rr.ret = 0
    /\ rr.n_acc = 100
    /\ rr.family = "falling"
    /\ rr.n = 97
    /\ rr.radius = 98

\* ------------------------------- properties: callbacks of a scaling pass

RECURSIVE SumOf(_)
SumOf(seq) == IF seq = << >> THEN 0 ELSE seq[1] + SumOf(Tail(seq))

\* The workers that are inside get_crystal or inside done_crystal
InSource == { w \in DOMAIN tp.wk : tp.wk[w].pc \in {"get", "started"} }

InCompletion == { w \in DOMAIN tp.wk : tp.wk[w].pc \in {"done", "counted", "adding"} }

\* C25: in a scaling pass done_crystal never runs at the same time as
\* another done_crystal or as get_crystal; it runs once for every task that
\* has finished; when run_threads returns n_done = n_started = n_crystals
\* and n_reflections is the sum of the counts of all tasks of the pass.
C25_CallbacksSerialised ==
    tp.pc # "idle" =>
        /\ Cardinality(InSource \cup InCompletion) <= 1
        /\ \A w \in DOMAIN tp.wk : tp.wk[w].pc # "wild"
        /\ \A c \in DOMAIN tp.dones : tp.dones[c] <= 1
        /\ tp.qa.n_done
              = Cardinality({ c \in DOMAIN tp.dones : tp.dones[c] = 1 })
                  + Cardinality({ w \in DOMAIN tp.wk : tp.wk[w].pc = "adding" })
        /\ tp.pc = "joined" =>
              /\ tp.qa.n_done = tp.n_crystals
              /\ tp.qa.n_started = tp.n_crystals
              /\ tp.qa.n_reflections = SumOf(tp.nr)
              /\ \A c \in DOMAIN tp.dones : tp.dones[c] = 1

\* Three tasks with counts that differ have been run by two workers
C25_Witness ==
    /\ tp.pc = "joined"
    /\ tp.n_crystals = 3
    /\ Len(tp.wk) = 2
    /\ tp.nr = <<2, 5, 0>>
    /\ tp.qa.n_reflections = 7

\* ---------------------------------------------------------------- C26
\* The reflections that pair_peaks has copied and that still exist: those
\* given to the caller's list and those held only by the pair array.
Surviving == heap.in_list + heap.loose

\* The next write of the first loop goes to rps[n], that of the second loop
\* to rps[n_acc]; both indices are below the number of features, which is
\* the length of the array the callers allocate.
WritesInArray ==
    /\ Len(rps) = Len(img.features)
    /\ pp.pc = "loop1" => pp.n <= pp.i /\ pp.i <= Len(img.features)
    /\ pp.pc = "loop2" => pp.n_acc <= pp.i /\ pp.i <= pp.n

Recorded == { k \in DOMAIN irf.redundancy : irf.redundancy[k] # -1 }

\* C27: a reflection is counted in n_saturated only if integrate_peak found
\* saturation for that same reflection, n_saturated is the number of such
\* reflections, and a reflection gets redundancy 1 exactly when it was not
\* vetoed, not excluded for saturation and its intensity/sigma is at least
\* min_snr.
C27_SaturationPerReflection ==
    irf.pc # "idle" =>
        /\ \A k \in Recorded : irf.counted[k] => irf.found[k]
        /\ irf.n_saturated = Cardinality({ k \in Recorded : irf.found[k] })
        /\ \A k \in Recorded :
              irf.redundancy[k] = 1 <=>
                  /\ ~irf.vetoed[k]
                  /\ ~(irf.found[k] /\ ~irf.integrate_saturated)
                  /\ ~irf.below[k]

\* ------------------------- properties: residual and normal equations

\* The positions in the crystal's list that log_residual with free = 0 sums over
ResidualTerms(c, list) ==
    {p \in 1..Len(c.refls) : ResidualUsable(c.refls[p], list, FALSE)}

\* The free-flagged reflections that pass every other test of scale_iterate
FreeButUsable(c, list) ==
    {p \in 1..Len(c.refls) :
        /\ c.refls[p].free
        /\ ScaleUsable([c.refls[p] EXCEPT !.free = FALSE], list)}

\* C28 as stated: for every crystal and the current reference list, the
\* residual with free = 0 is summed over exactly the reflections that
\* scale_iterate puts into the normal equations.
C28_SameReflections ==
    full.live =>
        \A c \in DOMAIN xt : ResidualTerms(xt[c], full.refl) = Contributors(xt[c], full.refl)

\* C28: the residual with free = 0 is summed over the reflections of the
\* normal equations and, in addition, over the free-flagged reflections that
\* pass the same tests of match, strength, redundancy, intensity and
\* partiality; the two sets are the same for a crystal without such a
\* free-flagged reflection.
C28_ResidualAddsFreeReflections ==
    full.live =>
        \A c \in DOMAIN xt :
            /\ Contributors(xt[c], full.refl) \cap FreeButUsable(xt[c], full.refl) = {}
            /\ ResidualTerms(xt[c], full.refl)
                 = Contributors(xt[c], full.refl) \cup FreeButUsable(xt[c], full.refl)

\* A crystal that scaling has changed and whose residual holds a free-flagged
\* reflection beside those of the normal equations
C28_Witness ==
    /\ full.live
    /\ \E c \in DOMAIN xt :
          /\ xt[c] # xt0[c]
          /\ xt[c].flag = "none"
          /\ Contributors(xt[c], full.refl) # {}
          /\ FreeButUsable(xt[c], full.refl) # {}
          /\ FreeButUsable(xt[c], full.refl) \subseteq ResidualTerms(xt[c], full.refl)

\* ----------------------------------- properties: local GUI backend

\* The children that have been spawned and whose exit callback has not run
Unreaped == gui.live \cup gui.exited

\* At most one child at a time, and the flag is 1 exactly while a child waits
\* for its exit callback
OneChild ==
    gui.pc # "idle" =>
        /\ Cardinality(Unreaped) <= 1
        /\ gui.running \in {0, 1}
        /\ gui.pc = "ready" => (gui.running = 1 <=> Unreaped # {})
        /\ gui.running = 1 => Unreaped = {gui.pid}
        /\ gui.why \in {"running", "list", "spawn"} => gui.ret = 1
        /\ gui.why = "started" => gui.ret = 0

\* A child is started only while the flag is 0 and sets it to 1; a call that
\* fails leaves the flag as it was
StartStep ==
    /\ gui'.spawned # gui.spawned =>
          /\ gui.running = 0
          /\ gui'.running = 1
          /\ gui'.ret = 0
          /\ gui'.spawned = gui.spawned + 1
    /\ (gui'.calls # gui.calls /\ gui'.ret = 1) =>
          /\ gui'.running = gui.running
          /\ gui'.spawned = gui.spawned
    /\ (gui.running = 0 /\ gui'.running = 1) => gui'.spawned # gui.spawned

\* The flag returns to 0 only in the exit callback of the child
ExitStep ==
    (gui.running = 1 /\ gui'.running = 0) =>
        /\ gui.pid \in gui.exited
        /\ gui'.closed = gui.closed \cup {gui.pid}

\* A signal is sent only while the flag is 1, to the child of the flag
CancelStep ==
    gui'.signals # gui.signals =>
        /\ gui.running = 1
        /\ gui'.signalled = gui.signalled \cup {gui.pid}
        /\ gui.pid \in Unreaped

\* C29: the local backend never has more than one indexamajig child at a
\* time: run_unitcell starts a child only while indexamajig_running is 0 and
\* sets the flag only after a successful spawn, a failed list write or spawn
\* leaves the flag 0, the flag returns to 0 only in the child-exit callback,
\* after which a new job can be started, and cancel sends a signal only while
\* the flag is 1.
C29_OneChildAtATime ==
    /\ []OneChild
    /\ [][StartStep /\ ExitStep /\ CancelStep]_vars

\* A second job started after the exit callback of the first, and a cancel
\* that signalled a child
C29_Witness ==
    /\ gui.pc = "ready"
    /\ gui.spawned = 2
    /\ gui.running = 1
    /\ gui.live = {2}
    /\ gui.closed = {1}
    /\ gui.signalled = {1}

\* ----------------------------- properties: get_detector_geometry

\* The lines the parser has dealt with
LinesRead == { q \in 1..Len(geo.file) : q <= geo.pos }

\* A per-panel line at position q whose panel number is no index of the
\* panels array, or that comes before any n_panels statement
Misplaced(q) ==
    /\ geo.file[q].k = "panel"
    /\ \/ ~(\E e \in 1..(q - 1) : geo.file[e].k = "n_panels")
       \/ geo.file[q].v < 0
       \/ geo.file[q].v >= geo.n_panels

\* C30: a per-panel field is written only at a valid index of the panels
\* array, 0 <= np < n_panels, after an n_panels statement; a line naming
\* another panel number, or a per-panel line before n_panels, makes the
\* parser return NULL without a write to the panels array.
C30_PanelNumberChecked ==
    geo.pc # "idle" =>
        /\ geo.outside = {}
        /\ geo.written \subseteq { np \in Int : 0 <= np /\ np < geo.n_panels }
        /\ \A q \in LinesRead :
              Misplaced(q) => /\ geo.pc = "returned"
                              /\ geo.ret = "NULL"
                              /\ geo.pos = q

====
